---- MODULE Spec2Model ----
(***************************************************************************)
(* RBAC permission resolution, RBAC service mutations, the JWT token       *)
(* lifecycle and the access-control decorators of flaskwithpsql.           *)
(*                                                                         *)
(* Permission names are modelled as sequences of one-character strings so  *)
(* that `":" in name`, `name.split(":", 1)` and f"{resource}:*" are        *)
(* computed, not assumed.  Rows of the roles and permissions tables are    *)
(* kept in insertion order; a row's id is its index.  Relationship         *)
(* collections (user.roles, user.direct_permissions, role.permissions)     *)
(* are lists of row ids, as the ORM keeps them.                            *)
(***************************************************************************)
EXTENDS Integers, Sequences, FiniteSets, TLC

VARIABLES
    users,             \* users.users rows: id -> [is_active, is_deleted] or NoRow
    permissions,       \* rbac.permissions rows, id = index
    roles,             \* rbac.roles rows, id = index
    user_roles,        \* user.roles: user id -> list of role ids
    user_permissions,  \* user.direct_permissions: user id -> list of permission ids
    tokens,            \* every token minted so far (a token is its claim set)
    token_blacklist,   \* _token_blacklist of each worker process
    now,               \* wall clock, minutes
    result,            \* outcome of the last operation
    trace              \* arguments of the last call and, across a grant and the
                       \* revoke that follows it, the permissions before the grant

store == <<users, permissions, roles, user_roles, user_permissions>>
vars == <<users, permissions, roles, user_roles, user_permissions,
          tokens, token_blacklist, now, result, trace>>

----------------------------------------------------------------------------
(* Bounds *)

MaxUsers == 2
NumWorkers == 2
MaxPairs == 2
MaxAdvances == 1
MaxHolders == 1

UserIds == 1..MaxUsers
Workers == 1..NumWorkers
HolderIds == 1..MaxHolders

----------------------------------------------------------------------------
(* Permission strings *)

w_users == <<"u","s","e","r","s">>
w_roles == <<"r","o","l","e","s">>
w_permissions == <<"p","e","r","m","i","s","s","i","o","n","s">>
w_read == <<"r","e","a","d">>
w_create == <<"c","r","e","a","t","e">>
w_update == <<"u","p","d","a","t","e">>
w_delete == <<"d","e","l","e","t","e">>
w_list == <<"l","i","s","t">>
w_assign == <<"a","s","s","i","g","n">>
w_revoke == <<"r","e","v","o","k","e">>
w_star == <<"*">>
w_docs == <<"d","o","c","s">>

\* "resource:action"
Name(resource, action) == resource \o <<":">> \o action

\* ":" in s
HasColon(s) == \E i \in 1..Len(s) : s[i] = ":"

\* s.split(":", 1)[0] for a string that contains ":"
SplitFirst(s) ==
    LET i == CHOOSE k \in 1..Len(s) :
                 s[k] = ":" /\ \A j \in 1..(k-1) : s[j] # ":"
    IN SubSeq(s, 1, i - 1)

\* PermissionRegistry.PERMISSIONS, keys in dict order
PERMISSIONS ==
    << Name(w_users, w_read), Name(w_users, w_create), Name(w_users, w_update),
       Name(w_users, w_delete), Name(w_users, w_list),
       Name(w_roles, w_read), Name(w_roles, w_create), Name(w_roles, w_update),
       Name(w_roles, w_delete), Name(w_roles, w_list), Name(w_roles, w_assign),
       Name(w_roles, w_revoke),
       Name(w_permissions, w_read), Name(w_permissions, w_list),
       Name(w_permissions, w_assign), Name(w_permissions, w_revoke),
       Name(w_star, w_star), Name(w_users, w_star), Name(w_roles, w_star),
       Name(w_permissions, w_star) >>

\* PermissionRegistry.DEFAULT_ROLES, in dict order
DEFAULT_ROLES ==
    << [name |-> "super_admin", permission_names |-> << Name(w_star, w_star) >>,
        is_system |-> TRUE],
       [name |-> "admin",
        permission_names |->
          << Name(w_users, w_read), Name(w_users, w_create), Name(w_users, w_update),
             Name(w_users, w_delete), Name(w_users, w_list),
             Name(w_roles, w_read), Name(w_roles, w_list), Name(w_roles, w_assign),
             Name(w_roles, w_revoke),
             Name(w_permissions, w_read), Name(w_permissions, w_list) >>,
        is_system |-> TRUE],
       [name |-> "moderator",
        permission_names |->
          << Name(w_users, w_read), Name(w_users, w_update), Name(w_users, w_list) >>,
        is_system |-> TRUE],
       [name |-> "user", permission_names |-> << Name(w_users, w_read) >>,
        is_system |-> TRUE] >>

----------------------------------------------------------------------------
(* Table lookups *)

None == 0
NoRow == [exists |-> FALSE]

Range(s) == { s[i] : i \in 1..Len(s) }

\* Query.first(): the lowest-id row that satisfies the filter, or None
First(S) == IF S = {} THEN None ELSE CHOOSE i \in S : \A j \in S : i <= j

\* Permission.query.filter_by(name=name, is_deleted=False).first()
get_permission_by_name(permission_name) ==
    First({ i \in 1..Len(permissions) :
              permissions[i].name = permission_name /\ ~permissions[i].is_deleted })

\* Permission.query.filter_by(name=name).first()
PermissionRowNamed(permission_name) ==
    First({ i \in 1..Len(permissions) : permissions[i].name = permission_name })

\* Faulty variant of get_role_by_name: the query has no is_deleted filter.
get_role_by_name_include_deleted(role_name) ==
    First({ i \in 1..Len(roles) : roles[i].name = role_name })

\* Role.query.filter_by(name=role_name, is_deleted=False).first()
get_role_by_name(role_name) ==
    First({ i \in 1..Len(roles) :
              roles[i].name = role_name /\ ~roles[i].is_deleted })

\* Role.query.filter_by(name=name).first()
RoleRowNamed(role_name) ==
    First({ i \in 1..Len(roles) : roles[i].name = role_name })

\* User.query.filter_by(id=identity, is_deleted=False).first()
get_user_by_id(user_id) ==
    IF user_id \in UserIds /\ users[user_id].exists /\ ~users[user_id].is_deleted
    THEN user_id ELSE None

----------------------------------------------------------------------------
(* Authorization engine: app/models/role.py, app/models/user.py *)

\* A call either returns a value or, when the parent walk never reaches a
\* role without parent, does not return.
Returns(v) == [returns |-> TRUE, value |-> v]
Hangs == [returns |-> FALSE, value |-> {}]

\* [perm.name for perm in role.permissions]
PermissionNames(ids) == { permissions[ids[i]].name : i \in 1..Len(ids) }

\* Faulty variant of ParentWalk: reads the first parent only.
ParentWalkOneLevel(parent, acc, fuel) ==
    IF parent = None THEN Returns(acc)
    ELSE Returns(acc \cup PermissionNames(roles[parent].permissions))

\* The `while parent:` loop of Role.get_all_permissions.  fuel starts at the
\* number of rows of the table: a walk longer than that has entered a cycle.
RECURSIVE ParentWalk(_, _, _)
ParentWalk(parent, acc, fuel) ==
    IF parent = None THEN Returns(acc)
    ELSE IF fuel = 0 THEN Hangs
    ELSE ParentWalk(roles[parent].parent_role_id,
                    acc \cup PermissionNames(roles[parent].permissions),
                    fuel - 1)

\* Faulty variant of RoleGetAllPermissions: a soft-deleted role grants nothing.
RoleGetAllPermissionsLive(role_id) ==
    IF roles[role_id].is_deleted THEN Returns({})
    ELSE ParentWalk(roles[role_id].parent_role_id,
                    PermissionNames(roles[role_id].permissions),
                    Len(roles))

\* Role.get_all_permissions
RoleGetAllPermissions(role_id) ==
    ParentWalk(roles[role_id].parent_role_id,
               PermissionNames(roles[role_id].permissions),
               Len(roles))

\* User.get_all_permissions over given relationship collections
GetAllPermissionsOf(role_ids, permission_ids) ==
    IF \E i \in 1..Len(role_ids) : ~RoleGetAllPermissions(role_ids[i]).returns
    THEN Hangs
    ELSE Returns(UNION { RoleGetAllPermissions(role_ids[i]).value : i \in 1..Len(role_ids) }
                 \cup PermissionNames(permission_ids))

\* User.get_all_permissions
get_all_permissions(user) ==
    GetAllPermissionsOf(user_roles[user], user_permissions[user])

\* Faulty variant of HasPermissionIn: also honours "*:<action>".
HasPermissionInActionWildcard(all_perms, permission_name) ==
    IF permission_name \in all_perms THEN TRUE
    ELSE IF Name(w_star, w_star) \in all_perms THEN TRUE
    ELSE IF HasColon(permission_name)
         THEN \/ Name(SplitFirst(permission_name), w_star) \in all_perms
              \/ Name(w_star, SubSeq(permission_name,
                                     Len(SplitFirst(permission_name)) + 2,
                                     Len(permission_name))) \in all_perms
         ELSE FALSE

\* The body of User.has_permission once all_perms has been computed
HasPermissionIn(all_perms, permission_name) ==
    IF permission_name \in all_perms THEN TRUE
    ELSE IF Name(w_star, w_star) \in all_perms THEN TRUE
    ELSE IF HasColon(permission_name)
         THEN Name(SplitFirst(permission_name), w_star) \in all_perms
         ELSE FALSE

\* User.has_permission
has_permission(user, permission_name) ==
    IF ~get_all_permissions(user).returns THEN [returns |-> FALSE, value |-> FALSE]
    ELSE Returns(HasPermissionIn(get_all_permissions(user).value, permission_name))

\* {role.name for role in self.roles}
UserRoleNames(user) == { roles[user_roles[user][i]].name : i \in 1..Len(user_roles[user]) }

\* Faulty variant of has_role: a role also counts when its parent has the name.
has_role_inherited(user, role_name) ==
    \E i \in 1..Len(user_roles[user]) :
        \/ roles[user_roles[user][i]].name = role_name
        \/ /\ roles[user_roles[user][i]].parent_role_id # None
           /\ roles[roles[user_roles[user][i]].parent_role_id].name = role_name

\* User.has_role
has_role(user, role_name) ==
    \E i \in 1..Len(user_roles[user]) : roles[user_roles[user][i]].name = role_name

\* User.has_any_role
has_any_role(user, role_names) == (UserRoleNames(user) \cap Range(role_names)) # {}

\* User.has_all_roles
has_all_roles(user, role_names) ==
    \A i \in 1..Len(role_names) : role_names[i] \in UserRoleNames(user)

\* RBACService.user_has_any_permission: any() stops at the first True
RECURSIVE user_has_any_permission(_, _)
user_has_any_permission(user, perms) ==
    IF perms = << >> THEN Returns(FALSE)
    ELSE LET h == has_permission(user, Head(perms))
         IN IF ~h.returns THEN h
            ELSE IF h.value THEN Returns(TRUE)
            ELSE user_has_any_permission(user, Tail(perms))

\* RBACService.user_has_all_permissions: all() stops at the first False
RECURSIVE user_has_all_permissions(_, _)
user_has_all_permissions(user, perms) ==
    IF perms = << >> THEN Returns(TRUE)
    ELSE LET h == has_permission(user, Head(perms))
         IN IF ~h.returns THEN h
            ELSE IF ~h.value THEN Returns(FALSE)
            ELSE user_has_all_permissions(user, Tail(perms))

----------------------------------------------------------------------------
(* ORM collections and commit-time constraints *)

\* Faulty variant of Remove: drops the head of the list, whatever it is
RemoveHead(list, x) == IF list = << >> THEN << >> ELSE Tail(list)

\* list.remove(x): drops the first occurrence of x
RECURSIVE Remove(_, _)
Remove(list, x) ==
    IF list = << >> THEN << >>
    ELSE IF Head(list) = x THEN Tail(list)
    ELSE << Head(list) >> \o Remove(Tail(list), x)

\* Composite primary key (user_id, role_id) / (user_id, permission_id):
\* a collection that holds the same row twice cannot be flushed.
ViolatesPrimaryKey(list) == \E i, j \in 1..Len(list) : i # j /\ list[i] = list[j]

Done(op, outcome) == result' = [op |-> op, outcome |-> outcome]

----------------------------------------------------------------------------
(* RBACService: role assignment, app/rbac/services.py *)

\* `if user.has_role(role_name)` in assign_role_to_user
AlreadyHasRole(user, role_name) == has_role(user, role_name)

\* RBACService.assign_role_to_user
assign_role_to_user(user, role_name) ==
    LET role == get_role_by_name(role_name)
        appended == Append(user_roles[user], role)
    IN /\ IF role = None
          THEN Done("assign_role_to_user", "RoleNotFoundError") /\ UNCHANGED user_roles
          ELSE IF AlreadyHasRole(user, role_name)
          THEN Done("assign_role_to_user", "RoleAssignmentError") /\ UNCHANGED user_roles
          ELSE IF ViolatesPrimaryKey(appended)
          THEN Done("assign_role_to_user", "IntegrityError") /\ UNCHANGED user_roles
          ELSE /\ user_roles' = [user_roles EXCEPT ![user] = appended]
               /\ Done("assign_role_to_user", "ok")
       /\ UNCHANGED <<users, permissions, roles, user_permissions,
                      tokens, token_blacklist, now>>

\* `if not user.has_role(role_name)` in revoke_role_from_user
LacksRole(user, role_name) == ~has_role(user, role_name)

\* RBACService.revoke_role_from_user
revoke_role_from_user(user, role_name) ==
    LET role == get_role_by_name(role_name)
    IN /\ IF role = None
          THEN Done("revoke_role_from_user", "RoleNotFoundError") /\ UNCHANGED user_roles
          ELSE IF LacksRole(user, role_name)
          THEN Done("revoke_role_from_user", "RoleAssignmentError") /\ UNCHANGED user_roles
          ELSE IF role \notin Range(user_roles[user])
          THEN Done("revoke_role_from_user", "ValueError") /\ UNCHANGED user_roles
          ELSE /\ user_roles' = [user_roles EXCEPT ![user] = Remove(@, role)]
               /\ Done("revoke_role_from_user", "ok")
       /\ UNCHANGED <<users, permissions, roles, user_permissions,
                      tokens, token_blacklist, now>>

----------------------------------------------------------------------------
(* RBACService: direct permissions *)

\* Faulty variant of AlreadyHasDirect: the duplicate check never fires
AlreadyHasDirectNever(user, perm) == FALSE

\* `if perm in user.direct_permissions` in grant_direct_permission
AlreadyHasDirect(user, perm) == perm \in Range(user_permissions[user])

\* RBACService.grant_direct_permission
grant_direct_permission(user, permission_name) ==
    LET perm == get_permission_by_name(permission_name)
        appended == Append(user_permissions[user], perm)
    IN /\ IF perm = None
          THEN /\ Done("grant_direct_permission", "PermissionNotFoundError")
               /\ UNCHANGED user_permissions
          ELSE IF AlreadyHasDirect(user, perm)
          THEN /\ Done("grant_direct_permission", "DirectPermissionError")
               /\ UNCHANGED user_permissions
          ELSE IF ViolatesPrimaryKey(appended)
          THEN /\ Done("grant_direct_permission", "IntegrityError")
               /\ UNCHANGED user_permissions
          ELSE /\ user_permissions' = [user_permissions EXCEPT ![user] = appended]
               /\ Done("grant_direct_permission", "ok")
       /\ UNCHANGED <<users, permissions, roles, user_roles,
                      tokens, token_blacklist, now>>

\* Faulty variant of LacksDirect: looks at the effective permissions instead of the
\* direct ones
LacksDirectEffective(user, perm) ==
    permissions[perm].name \notin get_all_permissions(user).value

\* `if perm not in user.direct_permissions` in revoke_direct_permission
LacksDirect(user, perm) == perm \notin Range(user_permissions[user])

\* RBACService.revoke_direct_permission
revoke_direct_permission(user, permission_name) ==
    LET perm == get_permission_by_name(permission_name)
    IN /\ IF perm = None
          THEN /\ Done("revoke_direct_permission", "PermissionNotFoundError")
               /\ UNCHANGED user_permissions
          ELSE IF LacksDirect(user, perm)
          THEN /\ Done("revoke_direct_permission", "DirectPermissionError")
               /\ UNCHANGED user_permissions
          ELSE IF perm \notin Range(user_permissions[user])
          THEN /\ Done("revoke_direct_permission", "ValueError")
               /\ UNCHANGED user_permissions
          ELSE /\ user_permissions' = [user_permissions EXCEPT ![user] = Remove(@, perm)]
               /\ Done("revoke_direct_permission", "ok")
       /\ UNCHANGED <<users, permissions, roles, user_roles,
                      tokens, token_blacklist, now>>

----------------------------------------------------------------------------
(* RBACService: role management *)

\* An optional string field that was not supplied (Python None)
Unset == "<None>"

\* An optional list field: supplied or not
Given(v) == [given |-> TRUE, value |-> v]
Omitted == [given |-> FALSE, value |-> << >>]

\* The permission rows named by a list of names, in order; None where the
\* lookup Permission.query.filter_by(name=..., is_deleted=False) misses
LookupPermissions(permission_names) ==
    [i \in 1..Len(permission_names) |-> get_permission_by_name(permission_names[i])]

\* The rows that were found
RECURSIVE Found(_)
Found(ids) ==
    IF ids = << >> THEN << >>
    ELSE IF Head(ids) = None THEN Found(Tail(ids))
    ELSE << Head(ids) >> \o Found(Tail(ids))

\* RBACService.create_role
create_role(name, permission_names, parent_role_name, is_system_role) ==
    LET existing == RoleRowNamed(name)
        has_parent == parent_role_name # Unset /\ parent_role_name # ""
        parent_role == IF has_parent THEN get_role_by_name(parent_role_name) ELSE None
        perms == LookupPermissions(permission_names)
    IN /\ IF existing # None
          THEN Done("create_role", "RoleAssignmentError") /\ UNCHANGED roles
          ELSE IF has_parent /\ parent_role = None
          THEN Done("create_role", "RoleNotFoundError") /\ UNCHANGED roles
          ELSE IF None \in Range(perms)
          THEN Done("create_role", "PermissionNotFoundError") /\ UNCHANGED roles
          ELSE /\ roles' = Append(roles, [name |-> name,
                                          is_deleted |-> FALSE,
                                          is_system_role |-> is_system_role,
                                          parent_role_id |-> parent_role,
                                          permissions |-> perms])
               /\ Done("create_role", "ok")
       /\ UNCHANGED <<users, permissions, user_roles, user_permissions,
                      tokens, token_blacklist, now>>

\* update_role of app/routes/v1/admin/roles.py (the handler body; the
\* display name and the description are not part of the model)
update_role(role_name, body_permissions, body_parent_role) ==
    LET role == get_role_by_name(role_name)
        new_permissions ==
            IF ~body_permissions.given THEN roles[role].permissions
            ELSE Found(LookupPermissions(body_permissions.value))
        parent == IF body_parent_role \in {Unset, ""} THEN None
                  ELSE get_role_by_name(body_parent_role)
        new_parent ==
            IF body_parent_role = Unset THEN roles[role].parent_role_id
            ELSE IF body_parent_role = "" THEN None
            ELSE parent
    IN /\ IF role = None
          THEN Done("update_role", "RoleNotFoundError") /\ UNCHANGED roles
          ELSE IF body_parent_role \notin {Unset, ""} /\ parent = None
          THEN Done("update_role", "RoleNotFoundError") /\ UNCHANGED roles
          ELSE /\ roles' = [roles EXCEPT ![role].permissions = new_permissions,
                                         ![role].parent_role_id = new_parent]
               /\ Done("update_role", "ok")
       /\ UNCHANGED <<users, permissions, user_roles, user_permissions,
                      tokens, token_blacklist, now>>

\* Faulty variant of IsProtected: the system-role check is skipped
IsProtectedNever(role) == FALSE

\* `if role.is_system_role` in delete_role
IsProtected(role) == roles[role].is_system_role

\* RBACService.delete_role
delete_role(role_name) ==
    LET role == get_role_by_name(role_name)
    IN /\ IF role = None
          THEN Done("delete_role", "RoleNotFoundError") /\ UNCHANGED roles
          ELSE IF IsProtected(role)
          THEN Done("delete_role", "SystemRoleError") /\ UNCHANGED roles
          ELSE /\ roles' = [roles EXCEPT ![role].is_deleted = TRUE]
               /\ Done("delete_role", "ok")
       /\ UNCHANGED <<users, permissions, user_roles, user_permissions,
                      tokens, token_blacklist, now>>

----------------------------------------------------------------------------
(* RBACService: seeding *)

\* RBACService.seed_permissions: the table after the loop over the registry
RECURSIVE SeedPermissions(_, _)
SeedPermissions(table, names) ==
    IF names = << >> THEN table
    ELSE IF \E i \in 1..Len(table) : table[i].name = Head(names)
         THEN SeedPermissions(table, Tail(names))
         ELSE SeedPermissions(Append(table, [name |-> Head(names), is_deleted |-> FALSE]),
                              Tail(names))

\* Permission.query.filter_by(name=perm_name).first() for each template name,
\* keeping the rows that exist
RECURSIVE TemplatePermissions(_, _)
TemplatePermissions(table, names) ==
    IF names = << >> THEN << >>
    ELSE LET row == First({ i \in 1..Len(table) : table[i].name = Head(names) })
         IN IF row = None THEN TemplatePermissions(table, Tail(names))
            ELSE << row >> \o TemplatePermissions(table, Tail(names))

\* `existing = Role.query.filter_by(name=role_name).first()` in seed_roles
RoleExists(table, name) ==
    \E i \in 1..Len(table) : table[i].name = name

\* Faulty variant of SeedRoles: an existing row is reset to its template
RECURSIVE SeedRolesUpsert(_, _, _)
SeedRolesUpsert(table, perm_table, templates) ==
    IF templates = << >> THEN table
    ELSE LET row == [name |-> Head(templates).name,
                     is_deleted |-> FALSE,
                     is_system_role |-> Head(templates).is_system,
                     parent_role_id |-> None,
                     permissions |->
                        TemplatePermissions(perm_table, Head(templates).permission_names)]
             at == First({ i \in 1..Len(table) : table[i].name = Head(templates).name })
         IN SeedRolesUpsert(IF at = None THEN Append(table, row)
                            ELSE [table EXCEPT ![at] = row],
                            perm_table, Tail(templates))

\* RBACService.seed_roles: the table after the loop over DEFAULT_ROLES
RECURSIVE SeedRoles(_, _, _)
SeedRoles(table, perm_table, templates) ==
    IF templates = << >> THEN table
    ELSE IF RoleExists(table, Head(templates).name)
         THEN SeedRoles(table, perm_table, Tail(templates))
         ELSE SeedRoles(
                Append(table, [name |-> Head(templates).name,
                               is_deleted |-> FALSE,
                               is_system_role |-> Head(templates).is_system,
                               parent_role_id |-> None,
                               permissions |->
                                 TemplatePermissions(perm_table,
                                                     Head(templates).permission_names)]),
                perm_table, Tail(templates))

\* The `skipped` counter of seed_permissions
RECURSIVE SkippedPermissions(_, _)
SkippedPermissions(table, names) ==
    IF names = << >> THEN 0
    ELSE IF \E i \in 1..Len(table) : table[i].name = Head(names)
         THEN 1 + SkippedPermissions(table, Tail(names))
         ELSE SkippedPermissions(Append(table, [name |-> Head(names), is_deleted |-> FALSE]),
                                 Tail(names))

\* The `created` counter of seed_permissions
RECURSIVE CreatedPermissions(_, _)
CreatedPermissions(table, names) ==
    IF names = << >> THEN 0
    ELSE IF \E i \in 1..Len(table) : table[i].name = Head(names)
         THEN CreatedPermissions(table, Tail(names))
         ELSE 1 + CreatedPermissions(Append(table, [name |-> Head(names),
                                                    is_deleted |-> FALSE]),
                                     Tail(names))

\* The `skipped` counter of seed_roles; a created row has the template name
RECURSIVE SkippedRoles(_, _)
SkippedRoles(names_in_table, templates) ==
    IF templates = << >> THEN 0
    ELSE IF RoleExists(names_in_table, Head(templates).name)
         THEN 1 + SkippedRoles(names_in_table, Tail(templates))
         ELSE SkippedRoles(Append(names_in_table,
                                  [name |-> Head(templates).name, is_deleted |-> FALSE]),
                           Tail(templates))

\* The `created` counter of seed_roles
RECURSIVE CreatedRoles(_, _)
CreatedRoles(names_in_table, templates) ==
    IF templates = << >> THEN 0
    ELSE IF RoleExists(names_in_table, Head(templates).name)
         THEN CreatedRoles(names_in_table, Tail(templates))
         ELSE 1 + CreatedRoles(Append(names_in_table,
                                      [name |-> Head(templates).name, is_deleted |-> FALSE]),
                               Tail(templates))

\* RBACService.seed_all
seed_all ==
    /\ permissions' = SeedPermissions(permissions, PERMISSIONS)
    /\ roles' = SeedRoles(roles, permissions', DEFAULT_ROLES)
    /\ result' = [op |-> "seed_all", outcome |-> "ok",
                  permissions |->
                     [created |-> CreatedPermissions(permissions, PERMISSIONS),
                      skipped |-> SkippedPermissions(permissions, PERMISSIONS)],
                  roles |->
                     [created |-> CreatedRoles(roles, DEFAULT_ROLES),
                      skipped |-> SkippedRoles(roles, DEFAULT_ROLES)]]
    /\ UNCHANGED <<users, user_roles, user_permissions, tokens, token_blacklist, now>>

----------------------------------------------------------------------------
(* Initial state: registered users and a seeded RBAC schema *)

UsernameOf(user_id) == IF user_id = 1 THEN "user1"
                       ELSE IF user_id = 2 THEN "user2" ELSE "user3"

EmailOf(user_id) == IF user_id = 1 THEN "user1@example.com"
                    ELSE IF user_id = 2 THEN "user2@example.com"
                    ELSE "user3@example.com"

RegisteredUser(user_id) ==
    [exists |-> TRUE, username |-> UsernameOf(user_id), email |-> EmailOf(user_id),
     password |-> "secret",
     is_active |-> TRUE, is_deleted |-> FALSE]

NoTrace == [kind |-> "none", user |-> None, role |-> "", permission |-> << >>,
            before |-> {}]

Init ==
    /\ users = [u \in UserIds |-> RegisteredUser(u)]
    /\ permissions = SeedPermissions(<< >>, PERMISSIONS)
    /\ roles = SeedRoles(<< >>, permissions, DEFAULT_ROLES)
    /\ user_roles = [u \in UserIds |-> << >>]
    /\ user_permissions = [u \in UserIds |-> << >>]
    /\ tokens = << >>
    /\ token_blacklist = [w \in Workers |-> {}]
    /\ now = 0
    /\ result = [op |-> "init", outcome |-> "ok"]
    /\ trace = NoTrace

----------------------------------------------------------------------------
(* Role administration: create, update, delete and seed, with one user     *)
(* holding roles and direct permissions                                    *)

L_update == << Name(w_users, w_update) >>
L_roles == << Name(w_roles, w_star), Name(w_roles, w_read) >>
L_unknown == << Name(w_docs, w_read) >>
L_mixed == << Name(w_docs, w_read), Name(w_roles, w_star), Name(w_roles, w_read) >>

CreateRoleInputs ==
    {"editor", "viewer"} \X {L_update, L_unknown} \X {Unset, "viewer", "user"}

UpdateRoleInputs ==
    ({"viewer"} \X {Omitted, Given(L_mixed)} \X {Unset, "", "viewer", "user"})
    \cup ({"user"} \X {Omitted} \X {"", "moderator"})

CreateRole ==
    \E i \in CreateRoleInputs : create_role(i[1], i[2], i[3], FALSE) /\ UNCHANGED trace
UpdateRole ==
    \E i \in UpdateRoleInputs : update_role(i[1], i[2], i[3]) /\ UNCHANGED trace
DeleteRole == \E n \in {"editor", "viewer", "user"} : delete_role(n) /\ UNCHANGED trace
SeedAll == seed_all /\ UNCHANGED trace
AssignRole ==
    \E u \in HolderIds, r \in {"viewer"} : assign_role_to_user(u, r) /\ UNCHANGED trace
RevokeRole ==
    \E u \in HolderIds, r \in {"viewer"} : revoke_role_from_user(u, r) /\ UNCHANGED trace
GrantDirect ==
    \E u \in HolderIds, p \in {Name(w_users, w_read)} :
        grant_direct_permission(u, p) /\ UNCHANGED trace

Next ==
    \/ CreateRole
    \/ UpdateRole
    \/ DeleteRole
    \/ SeedAll
    \/ AssignRole
    \/ RevokeRole
    \/ GrantDirect

Spec == Init /\ [][Next]_vars

----------------------------------------------------------------------------
(* Role assignment and direct permissions: every call records its arguments *)
(* in trace; a grant also records the effective permissions before it, and  *)
(* the revoke that directly follows it carries that value on.               *)

Called(user, role, permission) ==
    [kind |-> "call", user |-> user, role |-> role, permission |-> permission,
     before |-> {}]

EdgeRoleInputs == {"editor", "moderator"}

EdgePermissionInputs ==
    { Name(w_users, w_read), Name(w_roles, w_delete), Name(w_docs, w_read) }

EdgeAssignRole ==
    \E u \in HolderIds, r \in EdgeRoleInputs :
        assign_role_to_user(u, r) /\ trace' = Called(u, r, << >>)

EdgeRevokeRole ==
    \E u \in HolderIds, r \in EdgeRoleInputs :
        revoke_role_from_user(u, r) /\ trace' = Called(u, r, << >>)

EdgeGrantDirect ==
    \E u \in HolderIds, p \in EdgePermissionInputs :
        /\ grant_direct_permission(u, p)
        /\ trace' = IF result'.outcome = "ok"
                    THEN [kind |-> "granted", user |-> u, role |-> "", permission |-> p,
                          before |-> get_all_permissions(u).value]
                    ELSE Called(u, "", p)

EdgeRevokeDirect ==
    \E u \in HolderIds, p \in EdgePermissionInputs :
        /\ revoke_direct_permission(u, p)
        /\ trace' = IF /\ result'.outcome = "ok"
                       /\ trace.kind = "granted" /\ trace.user = u /\ trace.permission = p
                    THEN [trace EXCEPT !.kind = "restored"]
                    ELSE Called(u, "", p)

EdgeCreateRole ==
    create_role("editor", L_roles, "user", FALSE) /\ trace' = Called(None, "editor", << >>)

EdgeDeleteRole ==
    delete_role("editor") /\ trace' = Called(None, "editor", << >>)

NextEdges ==
    \/ EdgeAssignRole
    \/ EdgeRevokeRole
    \/ EdgeGrantDirect
    \/ EdgeRevokeDirect
    \/ EdgeCreateRole
    \/ EdgeDeleteRole

SpecEdges == Init /\ [][NextEdges]_vars

----------------------------------------------------------------------------
(* Permission checks over stores that also hold permission rows outside the *)
(* registry: a cross-resource wildcard, a name without separator and a name *)
(* with two separators                                                      *)

w_all == <<"a","l","l">>

ExtraPermissions ==
    << Name(w_star, w_read), w_users, Name(Name(w_users, w_read), w_all) >>

\* The names a user is given directly in the drawn stores
DrawnDirectNames ==
    { Name(w_users, w_read), Name(w_users, w_delete), Name(w_star, w_star),
      Name(w_users, w_star), Name(w_star, w_read), w_users,
      Name(Name(w_users, w_read), w_all) }

\* The names that are checked
CheckedNames ==
    DrawnDirectNames \cup { Name(w_roles, w_read), Name(w_docs, w_read), w_roles }

\* A set of row ids as a list in ascending order
RECURSIVE Ascending(_)
Ascending(S) ==
    IF S = {} THEN << >>
    ELSE LET m == CHOOSE x \in S : \A y \in S : x <= y
         IN << m >> \o Ascending(S \ {m})

InitPerm ==
    /\ users = [u \in UserIds |-> RegisteredUser(u)]
    /\ permissions = SeedPermissions(SeedPermissions(<< >>, PERMISSIONS), ExtraPermissions)
    /\ roles = SeedRoles(<< >>, permissions, DEFAULT_ROLES)
    /\ \E r \in {<< >>, << RoleRowNamed("user") >>} :
          user_roles = [u \in UserIds |-> IF u = 1 THEN r ELSE << >>]
    /\ \E D \in SUBSET { PermissionRowNamed(n) : n \in DrawnDirectNames } :
          user_permissions = [u \in UserIds |-> IF u = 1 THEN Ascending(D) ELSE << >>]
    /\ tokens = << >>
    /\ token_blacklist = [w \in Workers |-> {}]
    /\ now = 0
    /\ result = [op |-> "init", outcome |-> "ok"]
    /\ trace = NoTrace

\* RBACService.user_has_permission(user, permission)
CheckPermission ==
    \E u \in HolderIds, p \in CheckedNames :
        /\ has_permission(u, p).returns
        /\ result' = [op |-> "has_permission",
                      outcome |-> IF has_permission(u, p).value THEN "True" ELSE "False"]
        /\ trace' = Called(u, "", p)
        /\ UNCHANGED <<users, permissions, roles, user_roles, user_permissions,
                       tokens, token_blacklist, now>>

NextPerm == CheckPermission

SpecPerm == InitPerm /\ [][NextPerm]_vars

----------------------------------------------------------------------------
(* JWT tokens: app/auth/__init__.py.  Time is counted in minutes.  A token  *)
(* is the record of its claims; jti values are drawn in order of issue.     *)
(* _token_blacklist is a module-level set, one per worker process.          *)

ACCESS_TTL == 15
REFRESH_TTL == 43200

NoBearer == [jti |-> None, sub |-> None, type |-> "none", exp |-> 0]
Malformed == [jti |-> None, sub |-> None, type |-> "malformed", exp |-> 0]

\* What a client can put in the Authorization header
Bearers == Range(tokens) \cup {NoBearer, Malformed}

\* create_access_token / create_refresh_token with a jti used by no token
MintPair(user, first_jti) ==
    << [jti |-> first_jti, sub |-> user, type |-> "access", exp |-> now + ACCESS_TTL],
       [jti |-> first_jti + 1, sub |-> user, type |-> "refresh", exp |-> now + REFRESH_TTL] >>

\* create_tokens whose jti values repeat those of the pair issued last
create_tokens_same_jti(user) ==
    tokens' = tokens \o MintPair(user, IF tokens = << >> THEN 1 ELSE Len(tokens) - 1)

create_tokens(user) ==
    tokens' = tokens \o MintPair(user, Len(tokens) + 1)

\* revoke_token that keeps only the jti revoked last
revoke_token_latest(w, jti) ==
    token_blacklist' = [token_blacklist EXCEPT ![w] = {jti}]

\* Faulty variant of revoke_token: the refresh token of the pair is revoked too.
revoke_token_pair(w, jti) ==
    token_blacklist' = [token_blacklist EXCEPT ![w] = @ \cup {jti, jti + 1}]

\* Faulty variant of revoke_token: one revocation set shared by the workers.
revoke_token_shared(w, jti) ==
    token_blacklist' = [v \in Workers |-> token_blacklist[v] \cup {jti}]

revoke_token(w, jti) ==
    token_blacklist' = [token_blacklist EXCEPT ![w] = @ \cup {jti}]

\* a blocklist lookup by subject instead of by jti
check_if_token_revoked_by_subject(w, jwt_payload) ==
    \E t \in Range(tokens) : t.jti \in token_blacklist[w] /\ t.sub = jwt_payload.sub

check_if_token_revoked(w, jwt_payload) ==
    jwt_payload.jti \in token_blacklist[w]

\* Faulty variant of user_lookup_callback: the query has no is_deleted filter.
user_lookup_callback_include_deleted(jwt_data) ==
    IF jwt_data.sub \in UserIds /\ users[jwt_data.sub].exists
    THEN jwt_data.sub
    ELSE None

user_lookup_callback(jwt_data) ==
    IF /\ jwt_data.sub \in UserIds
       /\ users[jwt_data.sub].exists
       /\ ~users[jwt_data.sub].is_deleted
    THEN jwt_data.sub
    ELSE None

\* Faulty variant of verify_jwt_in_request: asks the blocklist callback first.
verify_jwt_in_request_blocklist_first(w, bearer, refresh) ==
    IF bearer.type = "none" THEN "missing"
    ELSE IF bearer.type = "malformed" THEN "invalid"
    ELSE IF check_if_token_revoked(w, bearer) THEN "revoked"
    ELSE IF bearer.exp <= now THEN "expired"
    ELSE IF bearer.type # (IF refresh THEN "refresh" ELSE "access") THEN "invalid"
    ELSE IF user_lookup_callback(bearer) = None THEN "user_lookup_error"
    ELSE "valid"

\* verify_jwt_in_request(refresh=...) in worker w: the token is read from the
\* header, decoded (signature and exp), its type is compared, the blocklist
\* callback is asked, and the user is loaded
verify_jwt_in_request(w, bearer, refresh) ==
    IF bearer.type = "none" THEN "missing"
    ELSE IF bearer.type = "malformed" THEN "invalid"
    ELSE IF bearer.exp <= now THEN "expired"
    ELSE IF bearer.type # (IF refresh THEN "refresh" ELSE "access") THEN "invalid"
    ELSE IF check_if_token_revoked(w, bearer) THEN "revoked"
    ELSE IF user_lookup_callback(bearer) = None THEN "user_lookup_error"
    ELSE "valid"

Response(op, status, code, message, details, ran) ==
    [op |-> op, outcome |-> IF status = 200 THEN "ok" ELSE "error",
     status |-> status, code |-> code, message |-> message,
     details |-> details, ran |-> ran]

\* The callbacks registered in init_jwt, and the library's handler for a
\* subject that cannot be loaded
JwtErrorResponse(op, verdict) ==
    IF verdict = "expired"
    THEN Response(op, 401, "TOKEN_EXPIRED", "Token has expired", << >>, FALSE)
    ELSE IF verdict = "invalid"
    THEN Response(op, 401, "TOKEN_INVALID", "Invalid token", << >>, FALSE)
    ELSE IF verdict = "missing"
    THEN Response(op, 401, "UNAUTHORIZED", "Authorization token required", << >>, FALSE)
    ELSE IF verdict = "revoked"
    THEN Response(op, 401, "TOKEN_INVALID", "Token has been revoked", << >>, FALSE)
    ELSE Response(op, 401, "", "Error loading the user", << >>, FALSE)

----------------------------------------------------------------------------
(* Authentication routes: app/auth/routes.py, app/services/user_service.py *)

\* Faulty variant of get_by_email: the query has no is_deleted filter.
get_by_email_include_deleted(email) ==
    First({u \in UserIds : users[u].exists /\ users[u].email = email})

get_by_email(email) ==
    First({u \in UserIds : /\ users[u].exists
                           /\ users[u].email = email
                           /\ ~users[u].is_deleted})

\* POST /login
login(email, password) ==
    LET user == get_by_email(email)
    IN /\ IF user = None
          THEN /\ result' = Response("login", 404, "RESOURCE_NOT_FOUND",
                                     "User not found", << >>, FALSE)
               /\ UNCHANGED tokens
          ELSE IF users[user].password # password
          THEN /\ result' = Response("login", 401, "INVALID_CREDENTIALS",
                                     "Invalid password", << >>, FALSE)
               /\ UNCHANGED tokens
          ELSE /\ Len(tokens) < 2 * MaxPairs
               /\ create_tokens(user)
               /\ result' = Response("login", 200, "", "Login successful", << >>, TRUE)
       /\ UNCHANGED <<users, permissions, roles, user_roles, user_permissions,
                      token_blacklist, now>>

\* POST /logout, behind jwt_required()
logout(w, bearer) ==
    LET verdict == verify_jwt_in_request(w, bearer, FALSE)
    IN /\ IF verdict # "valid"
          THEN /\ result' = JwtErrorResponse("logout", verdict)
               /\ UNCHANGED token_blacklist
          ELSE /\ revoke_token(w, bearer.jti)
               /\ result' = Response("logout", 200, "", "Logout successful", << >>, TRUE)
       /\ UNCHANGED <<users, permissions, roles, user_roles, user_permissions,
                      tokens, now>>

\* POST /refresh, behind jwt_required(refresh=True)
refresh(w, bearer) ==
    LET verdict == verify_jwt_in_request(w, bearer, TRUE)
    IN /\ IF verdict # "valid"
          THEN /\ result' = JwtErrorResponse("refresh", verdict)
               /\ UNCHANGED tokens
          ELSE /\ Len(tokens) < 2 * MaxPairs
               /\ create_tokens(user_lookup_callback(bearer))
               /\ result' = Response("refresh", 200, "", "Token refreshed", << >>, TRUE)
       /\ UNCHANGED <<users, permissions, roles, user_roles, user_permissions,
                      token_blacklist, now>>

\* GET /me, behind jwt_required()
get_me(w, bearer) ==
    LET verdict == verify_jwt_in_request(w, bearer, FALSE)
    IN /\ result' = IF verdict # "valid"
                    THEN JwtErrorResponse("me", verdict)
                    ELSE Response("me", 200, "", "", << >>, TRUE)
       /\ UNCHANGED <<users, permissions, roles, user_roles, user_permissions,
                      tokens, token_blacklist, now>>

\* UserService.update_user(user_id, {"is_active": value})
update_user(user_id, is_active) ==
    /\ IF get_user_by_id(user_id) = None
       THEN Done("update_user", "UserNotFoundError") /\ UNCHANGED users
       ELSE /\ users' = [users EXCEPT ![user_id].is_active = is_active]
            /\ Done("update_user", "ok")
    /\ UNCHANGED <<permissions, roles, user_roles, user_permissions,
                   tokens, token_blacklist, now>>

\* UserService.soft_delete(user_id)
soft_delete(user_id) ==
    /\ IF get_user_by_id(user_id) = None
       THEN Done("soft_delete", "UserNotFoundError") /\ UNCHANGED users
       ELSE /\ users' = [users EXCEPT ![user_id].is_deleted = TRUE]
            /\ Done("soft_delete", "ok")
    /\ UNCHANGED <<permissions, roles, user_roles, user_permissions,
                   tokens, token_blacklist, now>>

\* Faulty variant of restore: the restored account is also reactivated.
restore_and_activate(user_id) ==
    /\ IF ~(user_id \in UserIds /\ users[user_id].exists)
       THEN Done("restore", "UserNotFoundError") /\ UNCHANGED users
       ELSE /\ users' = [users EXCEPT ![user_id].is_deleted = FALSE,
                                      ![user_id].is_active = TRUE]
            /\ Done("restore", "ok")
    /\ UNCHANGED <<permissions, roles, user_roles, user_permissions,
                   tokens, token_blacklist, now>>

\* UserService.restore(user_id)
restore(user_id) ==
    /\ IF ~(user_id \in UserIds /\ users[user_id].exists)
       THEN Done("restore", "UserNotFoundError") /\ UNCHANGED users
       ELSE /\ users' = [users EXCEPT ![user_id].is_deleted = FALSE]
            /\ Done("restore", "ok")
    /\ UNCHANGED <<permissions, roles, user_roles, user_permissions,
                   tokens, token_blacklist, now>>

\* The clock moves on by the lifetime of an access or of a refresh token
Advances == (now % REFRESH_TTL) \div ACCESS_TTL + now \div REFRESH_TTL

Advance(minutes) ==
    /\ Advances < MaxAdvances
    /\ now' = now + minutes
    /\ Done("advance", "ok")
    /\ UNCHANGED <<users, permissions, roles, user_roles, user_permissions,
                   tokens, token_blacklist>>

----------------------------------------------------------------------------
(* Access-control decorators: app/rbac/decorators.py *)

Unauthorized(op, message) ==
    Response(op, 401, "UNAUTHORIZED", message, << >>, FALSE)

Forbidden(op, message, details) ==
    Response(op, 403, "FORBIDDEN", message, details, FALSE)

\* permission_required that checks the permissions before the is_active flag
permission_required_permissions_first(w, bearer, perms, require_all) ==
    LET op == "permission_required"
        user == user_lookup_callback(bearer)
        has_access == IF require_all THEN user_has_all_permissions(user, perms)
                      ELSE user_has_any_permission(user, perms)
    IN IF verify_jwt_in_request(w, bearer, FALSE) # "valid"
       THEN Unauthorized(op, "Authentication required")
       ELSE IF user = None
       THEN Unauthorized(op, "User not found or inactive")
       ELSE IF ~has_access.value
       THEN Forbidden(op, "Insufficient permissions", perms)
       ELSE IF ~users[user].is_active
       THEN Forbidden(op, "User account is deactivated", << >>)
       ELSE Response(op, 200, "", "", << >>, TRUE)

\* The wrapper of permission_required(*permissions, require_all=...)
permission_required(w, bearer, perms, require_all) ==
    LET op == "permission_required"
        user == user_lookup_callback(bearer)
        has_access == IF require_all THEN user_has_all_permissions(user, perms)
                      ELSE user_has_any_permission(user, perms)
    IN IF verify_jwt_in_request(w, bearer, FALSE) # "valid"
       THEN Unauthorized(op, "Authentication required")
       ELSE IF user = None
       THEN Unauthorized(op, "User not found or inactive")
       ELSE IF ~users[user].is_active
       THEN Forbidden(op, "User account is deactivated", << >>)
       ELSE IF ~has_access.value
       THEN Forbidden(op, "Insufficient permissions", perms)
       ELSE Response(op, 200, "", "", << >>, TRUE)

\* The wrapper of role_required(*roles, require_all=...)
role_required(w, bearer, role_names, require_all) ==
    LET op == "role_required"
        user == user_lookup_callback(bearer)
        has_access == IF require_all THEN has_all_roles(user, role_names)
                      ELSE has_any_role(user, role_names)
    IN IF verify_jwt_in_request(w, bearer, FALSE) # "valid"
       THEN Unauthorized(op, "Authentication required")
       ELSE IF user = None
       THEN Unauthorized(op, "User not found or inactive")
       ELSE IF ~users[user].is_active
       THEN Forbidden(op, "User account is deactivated", << >>)
       ELSE IF ~has_access
       THEN Forbidden(op, "Insufficient role privileges", role_names)
       ELSE Response(op, 200, "", "", << >>, TRUE)

----------------------------------------------------------------------------
(* Token lifecycle: logins, logouts, refreshes and validations handled by   *)
(* several workers while the clock moves and users and roles change.  trace *)
(* holds the worker and the Authorization header of the last request.       *)

Seen(kind, w, bearer, names, require_all) ==
    [kind |-> kind, worker |-> w, bearer |-> bearer, names |-> names,
     require_all |-> require_all]

Request(kind, w, bearer) ==
    trace' = Seen(kind, w, bearer, << >>, FALSE)

Background ==
    trace' = Seen("background", None, NoBearer, << >>, FALSE)

InitAuth ==
    /\ users = [u \in UserIds |-> RegisteredUser(u)]
    /\ permissions = SeedPermissions(<< >>, PERMISSIONS)
    /\ roles = SeedRoles(<< >>, permissions, DEFAULT_ROLES)
    /\ user_roles = [u \in UserIds |-> << >>]
    /\ user_permissions = [u \in UserIds |-> << >>]
    /\ tokens = << >>
    /\ token_blacklist = [w \in Workers |-> {}]
    /\ now = 0
    /\ result = [op |-> "init", outcome |-> "ok"]
    /\ trace = Seen("none", None, NoBearer, << >>, FALSE)

LoginInputs ==
    { <<EmailOf(1), "secret">>, <<EmailOf(2), "secret">>,
      <<EmailOf(1), "wrong">>, <<"nobody@example.com", "secret">> }

AuthLogin ==
    \E i \in LoginInputs : login(i[1], i[2]) /\ Request("login", None, NoBearer)

AuthLogout ==
    \E w \in Workers, b \in Bearers : logout(w, b) /\ Request("logout", w, b)

AuthRefresh ==
    \E w \in Workers, b \in Bearers : refresh(w, b) /\ Request("refresh", w, b)

AuthGetMe ==
    \E w \in Workers, b \in Bearers : get_me(w, b) /\ Request("me", w, b)

AuthAdvance ==
    \E minutes \in {ACCESS_TTL, REFRESH_TTL} : Advance(minutes) /\ Background

AuthAssignRole ==
    \E u \in HolderIds : assign_role_to_user(u, "moderator") /\ Background

NextAuth ==
    \/ AuthLogin
    \/ AuthLogout
    \/ AuthRefresh
    \/ AuthGetMe
    \/ AuthAdvance
    \/ AuthAssignRole

SpecAuth == InitAuth /\ [][NextAuth]_vars

----------------------------------------------------------------------------
(* Protected operations: requests that user 1 sends through worker 1 to     *)
(* routes wrapped by permission_required and role_required, while that user *)
(* is deactivated, deleted, restored, given roles and logged out            *)

MaxGatePairs == 1

GatePermissionInputs ==
    { << Name(w_users, w_read) >>,
      << Name(w_users, w_delete), Name(w_users, w_read) >>,
      << Name(w_roles, w_delete) >> }

GateRoleInputs == { << "moderator" >>, << "user", "moderator" >> }

GateLogin ==
    /\ Len(tokens) < 2 * MaxGatePairs
    /\ login(EmailOf(1), "secret")
    /\ Request("login", None, NoBearer)

GateLogout ==
    \E b \in Range(tokens) : logout(1, b) /\ Request("logout", 1, b)

GatePermissionRequired ==
    \E b \in Bearers, perms \in GatePermissionInputs, require_all \in BOOLEAN :
        /\ result' = permission_required(1, b, perms, require_all)
        /\ trace' = Seen("permission_required", 1, b, perms, require_all)
        /\ UNCHANGED <<users, permissions, roles, user_roles, user_permissions,
                       tokens, token_blacklist, now>>

GateRoleRequired ==
    \E b \in Bearers, role_names \in GateRoleInputs, require_all \in BOOLEAN :
        /\ result' = role_required(1, b, role_names, require_all)
        /\ trace' = Seen("role_required", 1, b, role_names, require_all)
        /\ UNCHANGED <<users, permissions, roles, user_roles, user_permissions,
                       tokens, token_blacklist, now>>

GateUpdateUser ==
    \E is_active \in BOOLEAN : update_user(1, is_active) /\ Background

GateSoftDelete == soft_delete(1) /\ Background

GateRestore == restore(1) /\ Background

GateAssignRole ==
    \E r \in {"user", "moderator"} : assign_role_to_user(1, r) /\ Background

GateRevokeRole ==
    \E r \in {"user", "moderator"} : revoke_role_from_user(1, r) /\ Background

GateAdvance == Advance(ACCESS_TTL) /\ Background

NextGate ==
    \/ GateLogin
    \/ GateLogout
    \/ GatePermissionRequired
    \/ GateRoleRequired
    \/ GateUpdateUser
    \/ GateSoftDelete
    \/ GateRestore
    \/ GateAssignRole
    \/ GateRevokeRole
    \/ GateAdvance

SpecGate == InitAuth /\ [][NextGate]_vars

----------------------------------------------------------------------------
(* Seeding over stores that lack registry rows, hold soft-deleted rows and  *)
(* hold roles whose flags and permissions differ from the registry          *)

\* Registry permissions that the drawn store may lack
DrawnMissingNames ==
    { Name(w_users, w_read), Name(w_roles, w_delete), Name(w_star, w_star) }

\* Registry permissions that the drawn store may hold soft-deleted
DrawnDeletedNames == { Name(w_users, w_update), Name(w_users, w_read) }

RECURSIVE PermissionRows(_, _, _)
PermissionRows(names, missing, deleted) ==
    IF names = << >> THEN << >>
    ELSE IF Head(names) \in missing THEN PermissionRows(Tail(names), missing, deleted)
    ELSE << [name |-> Head(names), is_deleted |-> Head(names) \in deleted] >>
         \o PermissionRows(Tail(names), missing, deleted)

\* The default roles named in present; with changed, the role "user" is a
\* soft-deleted custom role that holds users:update only
RECURSIVE RoleRows(_, _, _, _)
RoleRows(templates, present, changed, perm_table) ==
    IF templates = << >> THEN << >>
    ELSE IF Head(templates).name \notin present
    THEN RoleRows(Tail(templates), present, changed, perm_table)
    ELSE << [name |-> Head(templates).name,
             is_deleted |-> changed /\ Head(templates).name = "user",
             is_system_role |-> IF changed /\ Head(templates).name = "user"
                                THEN FALSE ELSE Head(templates).is_system,
             parent_role_id |-> None,
             permissions |->
                 TemplatePermissions(perm_table,
                     IF changed /\ Head(templates).name = "user"
                     THEN << Name(w_users, w_update) >>
                     ELSE Head(templates).permission_names)] >>
         \o RoleRows(Tail(templates), present, changed, perm_table)

InitSeed ==
    /\ users = [u \in UserIds |-> RegisteredUser(u)]
    /\ \E missing \in SUBSET DrawnMissingNames, deleted \in SUBSET DrawnDeletedNames :
          permissions = PermissionRows(PERMISSIONS, missing, deleted)
    /\ \E present \in SUBSET {"super_admin", "moderator", "user"}, changed \in BOOLEAN :
          roles = RoleRows(DEFAULT_ROLES, present, changed, permissions)
    /\ user_roles = [u \in UserIds |-> << >>]
    /\ user_permissions = [u \in UserIds |-> << >>]
    /\ tokens = << >>
    /\ token_blacklist = [w \in Workers |-> {}]
    /\ now = 0
    /\ result = [op |-> "init", outcome |-> "ok"]
    /\ trace = NoTrace

SeedSeedAll == seed_all /\ UNCHANGED trace

SeedDeleteRole ==
    \E n \in {"user", "moderator"} : delete_role(n) /\ UNCHANGED trace

SeedUpdateRole ==
    update_role("admin", Given(L_update), Unset) /\ UNCHANGED trace

NextSeed ==
    \/ SeedSeedAll
    \/ SeedDeleteRole
    \/ SeedUpdateRole

SpecSeed == InitSeed /\ [][NextSeed]_vars

----------------------------------------------------------------------------
(* Audit columns of the junction tables.  In this specification trace holds *)
(* the rows of rbac.user_roles and rbac.user_permissions with their audit   *)
(* columns, and the arguments of the last service call.  The rows are       *)
(* written by the ORM when user.roles / user.direct_permissions changes: the *)
(* INSERT names the two key columns, the other columns take their defaults. *)

AuditTrace(call, role_rows, permission_rows) ==
    [kind |-> "audit", call |-> call,
     user_roles |-> role_rows, user_permissions |-> permission_rows]

NoCall == [op |-> "none", user |-> None, target |-> None, by |-> None, reason |-> Unset]

InitAudit ==
    /\ users = [u \in UserIds |-> RegisteredUser(u)]
    /\ permissions = SeedPermissions(<< >>, PERMISSIONS)
    /\ roles = SeedRoles(<< >>, permissions, DEFAULT_ROLES)
    /\ user_roles = [u \in UserIds |-> << >>]
    /\ user_permissions = [u \in UserIds |-> << >>]
    /\ tokens = << >>
    /\ token_blacklist = [w \in Workers |-> {}]
    /\ now = 0
    /\ result = [op |-> "init", outcome |-> "ok"]
    /\ trace = AuditTrace(NoCall, {}, {})

\* The rows of a junction table after the session is flushed: a row for
\* every new member of the collection, none for a removed member
FlushedRows(rows, user, old_ids, new_ids, defaults) ==
    { r \in rows : r.user_id # user \/ r.target_id \in Range(new_ids) }
    \cup { [user_id |-> user, target_id |-> id] @@ defaults :
              id \in Range(new_ids) \ Range(old_ids) }

\* The acting admin is None (the system) or the second user
AuditActors == {None, MaxUsers}

AuditAssignRole ==
    \E u \in HolderIds, r \in {"moderator", "user", "editor"}, assigned_by \in AuditActors :
        /\ assign_role_to_user(u, r)
        /\ trace' = AuditTrace(
              [op |-> "assign_role_to_user", user |-> u, target |-> RoleRowNamed(r),
               by |-> assigned_by, reason |-> Unset],
              FlushedRows(trace.user_roles, u, user_roles[u], user_roles'[u],
                          [assigned_by |-> None]),
              trace.user_permissions)

AuditRevokeRole ==
    \E u \in HolderIds, r \in {"moderator", "user"} :
        /\ revoke_role_from_user(u, r)
        /\ trace' = AuditTrace(
              [op |-> "revoke_role_from_user", user |-> u, target |-> RoleRowNamed(r),
               by |-> None, reason |-> Unset],
              FlushedRows(trace.user_roles, u, user_roles[u], user_roles'[u],
                          [assigned_by |-> None]),
              trace.user_permissions)

AuditGrantDirect ==
    \E u \in HolderIds, p \in {Name(w_users, w_read), Name(w_docs, w_read)},
       granted_by \in AuditActors, reason \in {Unset, "audit"} :
        /\ grant_direct_permission(u, p)
        /\ trace' = AuditTrace(
              [op |-> "grant_direct_permission", user |-> u,
               target |-> PermissionRowNamed(p), by |-> granted_by, reason |-> reason],
              trace.user_roles,
              FlushedRows(trace.user_permissions, u, user_permissions[u],
                          user_permissions'[u],
                          [granted_by |-> None, reason |-> Unset]))

AuditRevokeDirect ==
    \E u \in HolderIds, p \in {Name(w_users, w_read)} :
        /\ revoke_direct_permission(u, p)
        /\ trace' = AuditTrace(
              [op |-> "revoke_direct_permission", user |-> u,
               target |-> PermissionRowNamed(p), by |-> None, reason |-> Unset],
              trace.user_roles,
              FlushedRows(trace.user_permissions, u, user_permissions[u],
                          user_permissions'[u],
                          [granted_by |-> None, reason |-> Unset]))

NextAudit ==
    \/ AuditAssignRole
    \/ AuditRevokeRole
    \/ AuditGrantDirect
    \/ AuditRevokeDirect

SpecAudit == InitAudit /\ [][NextAudit]_vars

----------------------------------------------------------------------------
(* Deleted subjects: tokens of user 1 outlive the soft or hard deletion of   *)
(* the user row.                                                            *)

\* UserService.hard_delete(user_id): the row is deleted, and with it the
\* junction rows that reference it (ondelete CASCADE)
hard_delete(user_id) ==
    /\ IF ~(user_id \in UserIds /\ users[user_id].exists)
       THEN /\ Done("hard_delete", "UserNotFoundError")
            /\ UNCHANGED <<users, user_roles, user_permissions>>
       ELSE /\ users' = [users EXCEPT ![user_id].exists = FALSE]
            /\ user_roles' = [user_roles EXCEPT ![user_id] = << >>]
            /\ user_permissions' = [user_permissions EXCEPT ![user_id] = << >>]
            /\ Done("hard_delete", "ok")
    /\ UNCHANGED <<permissions, roles, tokens, token_blacklist, now>>

SubjectLogin ==
    /\ Len(tokens) < 2 * MaxGatePairs
    /\ login(EmailOf(1), "secret")
    /\ Request("login", None, NoBearer)

SubjectLogout ==
    \E b \in Bearers : logout(1, b) /\ Request("logout", 1, b)

SubjectRefresh ==
    \E b \in Bearers : refresh(1, b) /\ Request("refresh", 1, b)

SubjectGetMe ==
    \E b \in Bearers : get_me(1, b) /\ Request("me", 1, b)

SubjectPermissionRequired ==
    \E b \in Bearers :
        /\ result' = permission_required(1, b, << Name(w_users, w_read) >>, FALSE)
        /\ trace' = Seen("permission_required", 1, b, << Name(w_users, w_read) >>, FALSE)
        /\ UNCHANGED <<users, permissions, roles, user_roles, user_permissions,
                       tokens, token_blacklist, now>>

SubjectRoleRequired ==
    \E b \in Bearers :
        /\ result' = role_required(1, b, << "user" >>, FALSE)
        /\ trace' = Seen("role_required", 1, b, << "user" >>, FALSE)
        /\ UNCHANGED <<users, permissions, roles, user_roles, user_permissions,
                       tokens, token_blacklist, now>>

SubjectAssignRole == assign_role_to_user(1, "user") /\ Background

SubjectSoftDelete == soft_delete(1) /\ Background

SubjectRestore == restore(1) /\ Background

SubjectHardDelete == hard_delete(1) /\ Background

NextSubject ==
    \/ SubjectLogin
    \/ SubjectLogout
    \/ SubjectRefresh
    \/ SubjectGetMe
    \/ SubjectPermissionRequired
    \/ SubjectRoleRequired
    \/ SubjectAssignRole
    \/ SubjectSoftDelete
    \/ SubjectRestore
    \/ SubjectHardDelete

SpecSubject == InitAuth /\ [][NextSubject]_vars

----------------------------------------------------------------------------
(* The v1 login flow: app/routes/v1/auth.py, app/services/auth_service.py,  *)
(* app/services/user_service.py                                             *)

\* User.check_password
check_password(user, password) == users[user].password = password

Raised(error) == [outcome |-> error, user |-> None]

\* UserService.authenticate(email, password)
authenticate(email, password) ==
    LET user == get_by_email(email)
    IN IF user = None THEN Raised("UserNotFoundError")
       ELSE IF ~check_password(user, password) THEN Raised("InvalidCredentialsError")
       ELSE [outcome |-> "ok", user |-> user]

\* handle_generic_exception: the answer to an exception no handler catches
handle_generic_exception(op, error, debug) ==
    Response(op, 500, "INTERNAL_ERROR",
             IF ~debug THEN "An unexpected error occurred. Please try again later."
             ELSE IF error = "UserNotFoundError"
             THEN "An unexpected error occurred (UserNotFoundError). Check logs."
             ELSE "An unexpected error occurred (Exception). Check logs.",
             << >>, FALSE)

\* POST /api/v1/auth/login: AuthService.login inside the route's
\* try / except InvalidCredentialsError; any other exception leaves the view
login_v1(email, password, debug) ==
    LET authenticated == authenticate(email, password)
    IN /\ IF authenticated.outcome = "InvalidCredentialsError"
          THEN /\ result' = Response("login", 401, "INVALID_CREDENTIALS",
                                     "Invalid email or password", << >>, FALSE)
               /\ UNCHANGED tokens
          ELSE IF authenticated.outcome # "ok"
          THEN /\ result' = handle_generic_exception("login", authenticated.outcome, debug)
               /\ UNCHANGED tokens
          ELSE /\ Len(tokens) < 2 * MaxPairs
               /\ create_tokens(authenticated.user)
               /\ result' = Response("login", 200, "", "Login successful", << >>, TRUE)
       /\ UNCHANGED <<users, permissions, roles, user_roles, user_permissions,
                      token_blacklist, now>>

Credentials(kind, email, password) ==
    [kind |-> kind, email |-> email, password |-> password]

LoginV1 ==
    \E i \in LoginInputs, debug \in BOOLEAN :
        /\ login_v1(i[1], i[2], debug)
        /\ trace' = Credentials("login_v1", i[1], i[2])

Authenticate ==
    \E i \in LoginInputs :
        /\ result' = [op |-> "authenticate"] @@ authenticate(i[1], i[2])
        /\ trace' = Credentials("authenticate", i[1], i[2])
        /\ UNCHANGED <<users, permissions, roles, user_roles, user_permissions,
                       tokens, token_blacklist, now>>

LoginSoftDelete ==
    \E u \in UserIds : soft_delete(u) /\ trace' = Credentials("background", "", "")

LoginRestore ==
    \E u \in UserIds : restore(u) /\ trace' = Credentials("background", "", "")

LoginHardDelete ==
    \E u \in UserIds : hard_delete(u) /\ trace' = Credentials("background", "", "")

InitLogin ==
    /\ users = [u \in UserIds |-> RegisteredUser(u)]
    /\ permissions = SeedPermissions(<< >>, PERMISSIONS)
    /\ roles = SeedRoles(<< >>, permissions, DEFAULT_ROLES)
    /\ user_roles = [u \in UserIds |-> << >>]
    /\ user_permissions = [u \in UserIds |-> << >>]
    /\ tokens = << >>
    /\ token_blacklist = [w \in Workers |-> {}]
    /\ now = 0
    /\ result = [op |-> "init", outcome |-> "ok"]
    /\ trace = Credentials("none", "", "")

NextLogin ==
    \/ LoginV1
    \/ Authenticate
    \/ LoginSoftDelete
    \/ LoginRestore
    \/ LoginHardDelete

SpecLogin == InitLogin /\ [][NextLogin]_vars

----------------------------------------------------------------------------
(* UserService: app/services/user_service.py.  The users table starts with  *)
(* one registered user; ids are given in order of insertion.  The columns   *)
(* username and email are unique over all rows, soft-deleted or not.        *)

NoUser ==
    [exists |-> FALSE, username |-> "", email |-> "", password |-> "",
     is_active |-> FALSE, is_deleted |-> FALSE]

\* UserService.get_by_id(user_id, include_deleted)
get_by_id(user_id, include_deleted) ==
    IF /\ user_id \in UserIds
       /\ users[user_id].exists
       /\ (include_deleted \/ ~users[user_id].is_deleted)
    THEN user_id ELSE None

\* UserService.get_by_email(email, include_deleted)
get_by_email_opt(email, include_deleted) ==
    First({u \in UserIds : /\ users[u].exists
                           /\ users[u].email = email
                           /\ (include_deleted \/ ~users[u].is_deleted)})

\* UserService.get_all(include_deleted): the ids of the first page
get_all(include_deleted) ==
    { u \in UserIds : users[u].exists /\ (include_deleted \/ ~users[u].is_deleted) }

\* Faulty variant of ViolatesUnique: indexes over the non-deleted rows only.
ViolatesUniqueLive(username, email) ==
    \E u \in UserIds :
        /\ users[u].exists /\ ~users[u].is_deleted
        /\ (users[u].username = username \/ users[u].email = email)

\* The unique indexes on users.username and users.email, checked at commit
ViolatesUnique(username, email) ==
    \E u \in UserIds :
        users[u].exists /\ (users[u].username = username \/ users[u].email = email)

\* User.query.filter_by(<column>=value, is_deleted=False).first() is not None
LiveUserWith(column, value) ==
    \E u \in UserIds :
        users[u].exists /\ ~users[u].is_deleted /\ users[u][column] = value

\* Faulty variant of DuplicateField: the email is looked up first.
DuplicateFieldEmailFirst(username, email) ==
    IF LiveUserWith("email", email) THEN "email"
    ELSE IF LiveUserWith("username", username) THEN "username"
    ELSE ""

\* The two duplicate checks of create_user, in their order
DuplicateField(username, email) ==
    IF LiveUserWith("username", username) THEN "username"
    ELSE IF LiveUserWith("email", email) THEN "email"
    ELSE ""

Created(op, outcome, field) == result' = [op |-> op, outcome |-> outcome, field |-> field]

\* UserService.create_user(data)
create_user(username, email, password) ==
    /\ IF DuplicateField(username, email) # ""
       THEN /\ Created("create_user", "UserAlreadyExistsError",
                       DuplicateField(username, email))
            /\ UNCHANGED users
       ELSE IF ViolatesUnique(username, email)
       THEN Created("create_user", "IntegrityError", "") /\ UNCHANGED users
       ELSE /\ \E u \in UserIds : ~users[u].exists
            /\ LET id == CHOOSE u \in UserIds :
                           ~users[u].exists /\ \A v \in 1..(u - 1) : users[v].exists
               IN users' = [users EXCEPT ![id] =
                              [exists |-> TRUE, username |-> username, email |-> email,
                               password |-> password, is_active |-> TRUE,
                               is_deleted |-> FALSE]]
            /\ Created("create_user", "ok", "")
    /\ UNCHANGED <<permissions, roles, user_roles, user_permissions,
                   tokens, token_blacklist, now>>

UserCall(kind, user_id, username, email) ==
    [kind |-> kind, user_id |-> user_id, username |-> username, email |-> email]

\* An id that no row has
UnknownUserId == MaxUsers + 1

InitUsers ==
    /\ users = [u \in UserIds |-> IF u = 1 THEN RegisteredUser(u) ELSE NoUser]
    /\ permissions = SeedPermissions(<< >>, PERMISSIONS)
    /\ roles = SeedRoles(<< >>, permissions, DEFAULT_ROLES)
    /\ user_roles = [u \in UserIds |-> << >>]
    /\ user_permissions = [u \in UserIds |-> << >>]
    /\ tokens = << >>
    /\ token_blacklist = [w \in Workers |-> {}]
    /\ now = 0
    /\ result = [op |-> "init", outcome |-> "ok"]
    /\ trace = UserCall("none", None, "", "")

UsersCreate ==
    \E username \in {UsernameOf(1), UsernameOf(2)}, email \in {EmailOf(1), EmailOf(2)} :
        /\ create_user(username, email, "secret")
        /\ trace' = UserCall("create_user", None, username, email)

UsersUpdate ==
    \E u \in UserIds \cup {UnknownUserId}, is_active \in BOOLEAN :
        /\ update_user(u, is_active)
        /\ trace' = UserCall("update_user", u, "", "")

UsersSoftDelete ==
    \E u \in UserIds \cup {UnknownUserId} :
        soft_delete(u) /\ trace' = UserCall("soft_delete", u, "", "")

UsersRestore ==
    \E u \in UserIds \cup {UnknownUserId} :
        restore(u) /\ trace' = UserCall("restore", u, "", "")

NextUsers ==
    \/ UsersCreate
    \/ UsersUpdate
    \/ UsersSoftDelete
    \/ UsersRestore

SpecUsers == InitUsers /\ [][NextUsers]_vars

----------------------------------------------------------------------------
(* Concurrent grants: every worker serves one request at a time in its own  *)
(* database session.  A request first loads the user with its collections   *)
(* and runs the service's checks on what it loaded; the INSERT of the new   *)
(* junction row is flushed at commit, where the composite primary key is    *)
(* checked against the committed rows.  In this specification trace holds   *)
(* the position of each worker's request.                                   *)

Idle == [pc |-> "idle", op |-> "", target |-> None, outcome |-> ""]

Racing(sessions) == [kind |-> "race", sessions |-> sessions]

InitRace ==
    /\ users = [u \in UserIds |-> RegisteredUser(u)]
    /\ permissions = SeedPermissions(<< >>, PERMISSIONS)
    /\ roles = SeedRoles(<< >>, permissions, DEFAULT_ROLES)
    /\ user_roles = [u \in UserIds |-> << >>]
    /\ user_permissions = [u \in UserIds |-> << >>]
    /\ tokens = << >>
    /\ token_blacklist = [w \in Workers |-> {}]
    /\ now = 0
    /\ result = [op |-> "init", outcome |-> "ok"]
    /\ trace = Racing([w \in Workers |-> Idle])

Finished(w, op, target, outcome) ==
    /\ trace' = Racing([trace.sessions EXCEPT ![w] =
                          [pc |-> "done", op |-> op, target |-> target,
                           outcome |-> outcome]])
    /\ Done(op, outcome)

\* assign_role_to_user up to `user.roles.append(role)`: the role lookup and
\* the has_role check on the collection the session loaded
RaceAssignCheck ==
    \E w \in Workers, r \in {"moderator", "editor"} :
        LET role == get_role_by_name(r)
        IN /\ trace.sessions[w].pc = "idle"
           /\ IF role = None
              THEN Finished(w, "assign_role_to_user", role, "RoleNotFoundError")
              ELSE IF AlreadyHasRole(1, r)
              THEN Finished(w, "assign_role_to_user", role, "RoleAssignmentError")
              ELSE /\ trace' = Racing([trace.sessions EXCEPT ![w] =
                                         [pc |-> "checked", op |-> "assign_role_to_user",
                                          target |-> role, outcome |-> ""]])
                   /\ UNCHANGED result
           /\ UNCHANGED store
           /\ UNCHANGED <<tokens, token_blacklist, now>>

\* grant_direct_permission up to `user.direct_permissions.append(perm)`
RaceGrantCheck ==
    \E w \in Workers, p \in {Name(w_users, w_read), Name(w_docs, w_read)} :
        LET perm == get_permission_by_name(p)
        IN /\ trace.sessions[w].pc = "idle"
           /\ IF perm = None
              THEN Finished(w, "grant_direct_permission", perm, "PermissionNotFoundError")
              ELSE IF AlreadyHasDirect(1, perm)
              THEN Finished(w, "grant_direct_permission", perm, "DirectPermissionError")
              ELSE /\ trace' = Racing([trace.sessions EXCEPT ![w] =
                                         [pc |-> "checked", op |-> "grant_direct_permission",
                                          target |-> perm, outcome |-> ""]])
                   /\ UNCHANGED result
           /\ UNCHANGED store
           /\ UNCHANGED <<tokens, token_blacklist, now>>

\* db.session.commit() of either service: the INSERT of the appended row
RaceCommit ==
    \E w \in Workers :
        LET s == trace.sessions[w]
            assign == s.op = "assign_role_to_user"
            committed == IF assign THEN user_roles[1] ELSE user_permissions[1]
        IN /\ s.pc = "checked"
           /\ IF ViolatesPrimaryKey(Append(committed, s.target))
              THEN /\ Finished(w, s.op, s.target, "IntegrityError")
                   /\ UNCHANGED <<user_roles, user_permissions>>
              ELSE /\ Finished(w, s.op, s.target, "ok")
                   /\ IF assign
                      THEN /\ user_roles' = [user_roles EXCEPT ![1] = Append(@, s.target)]
                           /\ UNCHANGED user_permissions
                      ELSE /\ user_permissions' =
                                 [user_permissions EXCEPT ![1] = Append(@, s.target)]
                           /\ UNCHANGED user_roles
           /\ UNCHANGED <<users, permissions, roles, tokens, token_blacklist, now>>

\* The response is sent and the worker takes its next request
RaceRespond ==
    \E w \in Workers :
        /\ trace.sessions[w].pc = "done"
        /\ trace' = Racing([trace.sessions EXCEPT ![w] = Idle])
        /\ UNCHANGED <<users, permissions, roles, user_roles, user_permissions,
                       tokens, token_blacklist, now, result>>

NextRace ==
    \/ RaceAssignCheck
    \/ RaceGrantCheck
    \/ RaceCommit
    \/ RaceRespond

SpecRace == InitRace /\ [][NextRace]_vars

----------------------------------------------------------------------------
(* Properties of role administration *)

\* A user whose only role is a, with a.parent = b, b.parent = c and c a root
ChainOfThree(u, a, b, c) ==
    /\ user_roles[u] = << a >>
    /\ roles[a].parent_role_id = b /\ b # None
    /\ roles[b].parent_role_id = c /\ c # None
    /\ roles[c].parent_role_id = None

\* C2: for a user whose only role is A, with A.parent = B and B.parent = C,
\* get_all_permissions returns exactly the union of the permissions attached
\* to A, B and C and of the user's direct permissions.
C2_InheritanceIsTransitive ==
    \A u \in UserIds : \A a, b, c \in 1..Len(roles) :
        ChainOfThree(u, a, b, c) =>
            /\ get_all_permissions(u).returns
            /\ get_all_permissions(u).value =
                  PermissionNames(roles[a].permissions)
                  \cup PermissionNames(roles[b].permissions)
                  \cup PermissionNames(roles[c].permissions)
                  \cup PermissionNames(user_permissions[u])

\* A chain of three distinct roles with three different permission sets, held
\* by a user who also has a direct permission
C2_Witness ==
    \E u \in UserIds : \E a, b, c \in 1..Len(roles) :
        /\ ChainOfThree(u, a, b, c)
        /\ a # b /\ b # c /\ a # c
        /\ ~(PermissionNames(roles[c].permissions)
               \subseteq PermissionNames(roles[a].permissions)
                         \cup PermissionNames(roles[b].permissions))
        /\ ~(PermissionNames(roles[b].permissions)
               \subseteq PermissionNames(roles[a].permissions))
        /\ user_permissions[u] # << >>
        /\ \E child \in 1..Len(roles) :
              /\ roles[child].parent_role_id = a
              /\ roles[child].permissions # << >>

\* C10: delete_role on a live system role raises SystemRoleError and leaves
\* the roles table as it was; no system role is ever soft-deleted; no step
\* clears the is_system_role flag of a role.
C10_SystemRolesAreNotDeleted ==
    /\ [](\A i \in 1..Len(roles) : roles[i].is_system_role => ~roles[i].is_deleted)
    /\ [][ /\ \A n \in { roles[i].name : i \in 1..Len(roles) } :
                (/\ delete_role(n)
                 /\ get_role_by_name(n) # None
                 /\ roles[get_role_by_name(n)].is_system_role)
                => (/\ result' = [op |-> "delete_role", outcome |-> "SystemRoleError"]
                    /\ roles' = roles)
           /\ \A i \in 1..Len(roles) :
                roles[i].is_system_role => roles'[i].is_system_role ]_vars

C10_Witness ==
    /\ result = [op |-> "delete_role", outcome |-> "SystemRoleError"]
    /\ \E i \in 1..Len(roles) : roles[i].is_system_role /\ ~roles[i].is_deleted
    /\ \E i \in 1..Len(roles) : roles[i].is_deleted

----------------------------------------------------------------------------
(* Properties of role assignment and direct permissions *)

\* C7: a grant of a direct permission followed by its revoke leaves
\* get_all_permissions of the user equal to its value before the grant.
C7_GrantThenRevokeRestores ==
    trace.kind = "restored" =>
        /\ get_all_permissions(trace.user).returns
        /\ get_all_permissions(trace.user).value = trace.before

\* The round trip has run for a permission the user also holds through a
\* role, next to another direct permission
C7_Witness ==
    /\ trace.kind = "restored"
    /\ result = [op |-> "revoke_direct_permission", outcome |-> "ok"]
    /\ trace.permission \in trace.before
    /\ user_permissions[trace.user] # << >>
    /\ user_roles[trace.user] # << >>

NoDuplicateEdge ==
    \A u \in UserIds : ~ViolatesPrimaryKey(user_roles[u])
                       /\ ~ViolatesPrimaryKey(user_permissions[u])

C9_RevokeAbsentRejected ==
    [][ /\ \A u \in UserIds, r \in EdgeRoleInputs :
             (/\ revoke_role_from_user(u, r)
              /\ get_role_by_name(r) # None
              /\ get_role_by_name(r) \notin Range(user_roles[u]))
             => (/\ result' = [op |-> "revoke_role_from_user",
                               outcome |-> "RoleAssignmentError"]
                 /\ UNCHANGED <<user_roles, user_permissions>>
                 /\ get_all_permissions(u)' = get_all_permissions(u))
        /\ \A u \in UserIds, p \in EdgePermissionInputs :
             (/\ revoke_direct_permission(u, p)
              /\ get_permission_by_name(p) # None
              /\ get_permission_by_name(p) \notin Range(user_permissions[u]))
             => (/\ result' = [op |-> "revoke_direct_permission",
                               outcome |-> "DirectPermissionError"]
                 /\ UNCHANGED <<user_roles, user_permissions>>
                 /\ get_all_permissions(u)' = get_all_permissions(u)) ]_vars

\* A revoke of a direct permission was rejected although the user holds the
\* permission through a role
C9_Witness ==
    /\ result = [op |-> "revoke_direct_permission", outcome |-> "DirectPermissionError"]
    /\ trace.kind = "call"
    /\ get_permission_by_name(trace.permission) \notin Range(user_permissions[trace.user])
    /\ trace.permission \in get_all_permissions(trace.user).value

----------------------------------------------------------------------------
(* Properties of the permission check *)

\* The text of a name before its first colon, as the prefix that has no
\* colon and is followed by one
BeforeFirstColon(p) ==
    CHOOSE q \in { SubSeq(p, 1, k) : k \in 0..(Len(p) - 1) } :
        /\ \A j \in 1..Len(q) : q[j] # ":"
        /\ p[Len(q) + 1] = ":"

\* C1: has_permission(U, P) is true iff P is in get_all_permissions(U), or
\* "*:*" is, or P has a colon and "<text before its first colon>:*" is; a
\* user holding only "*:read" is refused "users:read", and a user holding
\* the individual "users:<action>" names and no wildcard is refused "users:*".
C1_HasPermissionIffGranted ==
    LET Granted(all_perms, p) ==
            \/ p \in all_perms
            \/ <<"*", ":", "*">> \in all_perms
            \/ /\ \E j \in 1..Len(p) : p[j] = ":"
               /\ (BeforeFirstColon(p) \o <<":", "*">>) \in all_perms
    IN /\ \A u \in HolderIds, p \in CheckedNames :
             has_permission(u, p).value = Granted(get_all_permissions(u).value, p)
       /\ result.op = "has_permission" =>
             (result.outcome = "True") =
                 Granted(get_all_permissions(trace.user).value, trace.permission)
       /\ \A u \in HolderIds :
             get_all_permissions(u).value = { Name(w_star, w_read) }
                => ~has_permission(u, Name(w_users, w_read)).value
       /\ \A u \in HolderIds :
             get_all_permissions(u).value
                   = { Name(w_users, w_read), Name(w_users, w_delete) }
                => ~has_permission(u, Name(w_users, w_star)).value

\* has_permission has just refused "users:read" to a user who holds only "*:read"
C1_Witness ==
    /\ result = [op |-> "has_permission", outcome |-> "False"]
    /\ trace.permission = Name(w_users, w_read)
    /\ get_all_permissions(trace.user).value = { Name(w_star, w_read) }

----------------------------------------------------------------------------
(* Properties of the access-control decorators *)

\* C3: the operation wrapped by permission_required or role_required runs
\* only if the bearer token validates, its subject is a non-deleted user,
\* that user is active and the requirement is met (any-mode: at least one
\* listed name, all-mode: every listed name), checked in this order: a bad
\* token or subject gives 401, a deactivated user gives the 403
\* "deactivated" response even when the requirement is not met, an unmet
\* requirement gives a 403 that lists the required names, and in every
\* failure the wrapped operation is not run.
C3_GateOrder ==
    trace.kind \in {"permission_required", "role_required"} =>
        LET b == trace.bearer
            holds(n) == IF trace.kind = "permission_required"
                        THEN \/ n \in get_all_permissions(b.sub).value
                             \/ Name(w_star, w_star) \in get_all_permissions(b.sub).value
                             \/ Name(BeforeFirstColon(n), w_star)
                                    \in get_all_permissions(b.sub).value
                        ELSE \E i \in 1..Len(user_roles[b.sub]) :
                                 roles[user_roles[b.sub][i]].name = n
            token_validates == /\ b \in Range(tokens)
                               /\ b.type = "access"
                               /\ now < b.exp
                               /\ b.jti \notin token_blacklist[trace.worker]
            subject_resolves == /\ b.sub \in UserIds
                                /\ users[b.sub].exists
                                /\ ~users[b.sub].is_deleted
            requirement_met == IF trace.require_all
                               THEN \A i \in 1..Len(trace.names) : holds(trace.names[i])
                               ELSE \E i \in 1..Len(trace.names) : holds(trace.names[i])
        IN /\ result.ran =
                 (/\ token_validates
                  /\ subject_resolves
                  /\ users[b.sub].is_active
                  /\ requirement_met)
           /\ ~(token_validates /\ subject_resolves)
                 => result.status = 401 /\ ~result.ran
           /\ (token_validates /\ subject_resolves /\ ~users[b.sub].is_active)
                 => /\ result.status = 403
                    /\ result.message = "User account is deactivated"
                    /\ ~result.ran
           /\ (/\ token_validates
               /\ subject_resolves
               /\ users[b.sub].is_active
               /\ ~requirement_met)
                 => /\ result.status = 403
                    /\ result.details = trace.names
                    /\ ~result.ran

\* A deactivated user who also lacks the required permission has just been
\* answered by permission_required
C3_Witness ==
    /\ trace.kind = "permission_required"
    /\ trace.bearer \in Range(tokens)
    /\ result.message = "User account is deactivated"
    /\ ~users[trace.bearer.sub].is_active
    /\ ~user_has_any_permission(trace.bearer.sub, trace.names).value

----------------------------------------------------------------------------
(* Properties of the token lifecycle *)

C5_LogoutRevokesOnlyThatToken ==
    [][\A w0 \in Workers : \A b \in Range(tokens) :
          (/\ result'.op = "logout"
           /\ result'.status = 200
           /\ trace'.worker = w0
           /\ trace'.bearer = b)
             => /\ verify_jwt_in_request(w0, b, FALSE)' = "revoked"
                /\ tokens' = tokens
                /\ \A t \in Range(tokens) : \A w \in Workers : \A r \in BOOLEAN :
                      t # b => verify_jwt_in_request(w, t, r)'
                                  = verify_jwt_in_request(w, t, r)]_vars

\* A user has just logged out while the refresh token of the same pair and
\* an access token of another user are valid
C5_Witness ==
    /\ result.op = "logout"
    /\ result.status = 200
    /\ \E t \in Range(tokens) :
          /\ t.jti = trace.bearer.jti + 1
          /\ t.sub = trace.bearer.sub
          /\ verify_jwt_in_request(trace.worker, t, TRUE) = "valid"
    /\ \E t \in Range(tokens) :
          /\ t.sub # trace.bearer.sub
          /\ verify_jwt_in_request(trace.worker, t, FALSE) = "valid"

\* C6: refresh succeeds exactly for a refresh token that validates; an
\* access token is refused and nothing is minted; a success issues one new
\* access and one new refresh token for the subject, with jti values no
\* token had before, and leaves the revocation set alone, so the presented
\* refresh token validates afterwards as it did before.
C6_RefreshMintsAndKeepsOldToken ==
    [][\A w \in Workers : \A b \in Bearers :
          (trace'.kind = "refresh" /\ trace'.worker = w /\ trace'.bearer = b)
         => LET accepted == /\ b \in Range(tokens)
                            /\ b.type = "refresh"
                            /\ now < b.exp
                            /\ b.jti \notin token_blacklist[w]
                            /\ b.sub \in UserIds
                            /\ ~users[b.sub].is_deleted
                minted == { tokens'[i] : i \in (Len(tokens) + 1)..Len(tokens') }
            IN /\ accepted = (result'.status = 200)
               /\ b.type = "access" => result'.status = 401 /\ tokens' = tokens
               /\ ~accepted => result'.status = 401 /\ tokens' = tokens
               /\ accepted =>
                    /\ Len(tokens') = Len(tokens) + 2
                    /\ SubSeq(tokens', 1, Len(tokens)) = tokens
                    /\ { t.type : t \in minted } = {"access", "refresh"}
                    /\ \A t \in minted :
                          /\ t.sub = b.sub
                          /\ now < t.exp
                          /\ \A old \in Range(tokens) : old.jti # t.jti
                    /\ \A t1 \in minted : \A t2 \in minted : t1.jti = t2.jti => t1 = t2
                    /\ token_blacklist' = token_blacklist
                    /\ \A w2 \in Workers :
                          verify_jwt_in_request(w2, b, TRUE)'
                             = verify_jwt_in_request(w2, b, TRUE)
                    /\ verify_jwt_in_request(w, b, TRUE)' = "valid"]_vars

\* A refresh has just succeeded and the refresh token that was presented
\* is still accepted
C6_Witness ==
    /\ result.op = "refresh"
    /\ result.status = 200
    /\ trace.bearer.type = "refresh"
    /\ trace.bearer.jti \notin token_blacklist[trace.worker]
    /\ verify_jwt_in_request(trace.worker, trace.bearer, TRUE) = "valid"

----------------------------------------------------------------------------
(* Properties of protected roles *)

\* C11: every mutation of a role whose is_system_role flag is true, by the
\* update operation (permissions, parent) as well as by delete, is rejected
\* with SystemRoleError and leaves the role unchanged.
C11_ProtectedRoleMutationsRejected ==
    [][\A n \in { roles[i].name : i \in 1..Len(roles) } :
          (/\ get_role_by_name(n) # None
           /\ roles[get_role_by_name(n)].is_system_role
           /\ \/ delete_role(n)
              \/ \E i \in UpdateRoleInputs : i[1] = n /\ update_role(n, i[2], i[3]))
             => /\ result'.outcome = "SystemRoleError"
                /\ roles' = roles]_vars

----------------------------------------------------------------------------
(* Properties of seeding *)

\* C12: seeding is idempotent: a seed_all that directly follows a seed_all
\* returns created = 0 and skipped = registry size for permissions and for
\* roles and changes neither table; and every seed_all leaves each row
\* that existed before it as it was (soft-deleted rows and rows that
\* differ from the registry included).
C12_SeedingIsIdempotent ==
    [][seed_all =>
         /\ SubSeq(permissions', 1, Len(permissions)) = permissions
         /\ SubSeq(roles', 1, Len(roles)) = roles
         /\ result.op = "seed_all" =>
               /\ result'.permissions = [created |-> 0, skipped |-> Len(PERMISSIONS)]
               /\ result'.roles = [created |-> 0, skipped |-> Len(DEFAULT_ROLES)]
               /\ permissions' = permissions
               /\ roles' = roles]_vars

\* A second seed_all has just run on a store whose first seeding created
\* rows and which holds a soft-deleted custom role named like a default role
C12_Witness ==
    /\ result.op = "seed_all"
    /\ result.permissions = [created |-> 0, skipped |-> Len(PERMISSIONS)]
    /\ result.roles = [created |-> 0, skipped |-> Len(DEFAULT_ROLES)]
    /\ \E i \in 1..Len(roles) :
          /\ roles[i].name = "user"
          /\ roles[i].is_deleted
          /\ ~roles[i].is_system_role
    /\ \E i \in 1..Len(permissions) : permissions[i].is_deleted
    /\ permissions[Len(permissions)].name \in DrawnMissingNames

----------------------------------------------------------------------------
(* Properties of the audit columns *)

\* C13: after assign_role_to_user(user, role, assigned_by=A) the stored
\* user-role row records A as the acting admin, and after
\* grant_direct_permission(user, P, granted_by=A, reason=R) the stored
\* user-permission row records A as the acting admin and R as its reason.
C13_EdgesCarryAuditMetadata ==
    /\ (trace.call.op = "assign_role_to_user" /\ result.outcome = "ok")
          => \E row \in trace.user_roles :
                /\ row.user_id = trace.call.user
                /\ row.target_id = trace.call.target
                /\ row.assigned_by = trace.call.by
    /\ (trace.call.op = "grant_direct_permission" /\ result.outcome = "ok")
          => \E row \in trace.user_permissions :
                /\ row.user_id = trace.call.user
                /\ row.target_id = trace.call.target
                /\ row.granted_by = trace.call.by
                /\ row.reason = trace.call.reason

----------------------------------------------------------------------------
(* Properties of the role-name checks *)

\* The roles met by the `while parent:` walk that starts at a role's parent
RECURSIVE ParentChain(_, _)
ParentChain(role_id, fuel) ==
    IF roles[role_id].parent_role_id = None \/ fuel = 0 THEN {}
    ELSE {roles[role_id].parent_role_id}
         \cup ParentChain(roles[role_id].parent_role_id, fuel - 1)

CheckedRoleNames == {"user", "moderator", "editor", "viewer"}

CheckedRoleNameLists ==
    { << >>, << "viewer" >>, << "moderator" >>, << "user", "viewer" >>,
      << "viewer", "editor" >>, << "moderator", "user" >> }

\* A user who holds no role named r but holds a role whose parent chain
\* reaches the role p named r
HoldsOnlyChildOf(u, p) ==
    /\ \A i \in 1..Len(user_roles[u]) : roles[user_roles[u][i]].name # roles[p].name
    /\ \E i \in 1..Len(user_roles[u]) : p \in ParentChain(user_roles[u][i], Len(roles))

\* C14: has_role(U, R) is true iff some role assigned to U has name exactly
\* R; has_any_role and has_all_roles are the OR and the AND of has_role over
\* the given names; a user holding only a child role whose parent chain
\* contains R has has_role(U, R) = false although the user has all of R's
\* permissions.
C14_RoleChecksUseAssignedRolesOnly ==
    \A u \in UserIds :
        /\ \A r \in CheckedRoleNames :
              has_role(u, r) <=>
                 \E id \in Range(user_roles[u]) : roles[id].name = r
        /\ \A names \in CheckedRoleNameLists :
              /\ has_any_role(u, names) <=> \E i \in 1..Len(names) : has_role(u, names[i])
              /\ has_all_roles(u, names) <=> \A i \in 1..Len(names) : has_role(u, names[i])
        /\ \A p \in 1..Len(roles) :
              HoldsOnlyChildOf(u, p) =>
                 /\ ~has_role(u, roles[p].name)
                 /\ get_all_permissions(u).returns =>
                       RoleGetAllPermissions(p).value \subseteq get_all_permissions(u).value

C14_Witness ==
    \E u \in UserIds : \E p \in 1..Len(roles) :
        /\ HoldsOnlyChildOf(u, p)
        /\ roles[p].name = "moderator"
        /\ roles[p].permissions # << >>
        /\ get_all_permissions(u).returns
        /\ ~has_role(u, "moderator")
        /\ has_role(u, "viewer")
        /\ \E c \in Range(user_roles[u]) : roles[c].parent_role_id \notin {None, p}

----------------------------------------------------------------------------
(* Properties of deleted subjects *)

JwtProtected == {"logout", "refresh", "me", "permission_required", "role_required"}

----------------------------------------------------------------------------
(* Properties of the classification of token failures *)

JwtRequired == {"logout", "refresh", "me"}

Answered(code, message) ==
    /\ result'.status = 401
    /\ result'.code = code
    /\ result'.message = message
    /\ ~result'.ran

ExpectedType(kind) == IF kind = "refresh" THEN "refresh" ELSE "access"

\* The four named failures differ pairwise in code or message
FourOutcomesDiffer ==
    \A v1, v2 \in {"expired", "revoked", "invalid", "missing"} :
        v1 # v2 =>
           <<JwtErrorResponse("me", v1).code, JwtErrorResponse("me", v1).message>>
           # <<JwtErrorResponse("me", v2).code, JwtErrorResponse("me", v2).message>>

\* C16 as stated: an expired token yields the expired-token failure, a token
\* whose jti is in the revocation set yields the revoked-token failure, a
\* malformed token the invalid-token failure, an absent token the
\* no-credential failure; the four differ pairwise and none is a success.
C16_EveryRevokedTokenFailsAsRevoked ==
    [][\A w \in Workers : \A b \in Bearers :
          (trace'.kind \in JwtRequired /\ trace'.worker = w /\ trace'.bearer = b)
             => /\ FourOutcomesDiffer
                /\ b.type = "none" => Answered("UNAUTHORIZED", "Authorization token required")
                /\ b.type = "malformed" => Answered("TOKEN_INVALID", "Invalid token")
                /\ (b \in Range(tokens) /\ b.exp <= now)
                      => Answered("TOKEN_EXPIRED", "Token has expired")
                /\ (b \in Range(tokens) /\ b.jti \in token_blacklist[w])
                      => Answered("TOKEN_INVALID", "Token has been revoked")]_vars

\* C16, amended: the checks run in the order absent, malformed, expired,
\* wrong type, revoked.  A token in the revocation set yields the
\* revoked-token failure when it is unexpired and of the expected type; an
\* expired one yields the expired-token failure whether revoked or not.  The
\* four outcomes differ pairwise and none is a success.
C16_FailuresClassifiedInOrder ==
    [][\A w \in Workers : \A b \in Bearers :
          (trace'.kind \in JwtRequired /\ trace'.worker = w /\ trace'.bearer = b)
             => /\ FourOutcomesDiffer
                /\ b.type = "none" => Answered("UNAUTHORIZED", "Authorization token required")
                /\ b.type = "malformed" => Answered("TOKEN_INVALID", "Invalid token")
                /\ (b \in Range(tokens) /\ b.exp <= now)
                      => Answered("TOKEN_EXPIRED", "Token has expired")
                /\ (b \in Range(tokens) /\ now < b.exp /\ b.type # ExpectedType(trace'.kind))
                      => Answered("TOKEN_INVALID", "Invalid token")
                /\ (/\ b \in Range(tokens) /\ now < b.exp
                    /\ b.type = ExpectedType(trace'.kind)
                    /\ b.jti \in token_blacklist[w])
                      => Answered("TOKEN_INVALID", "Token has been revoked")]_vars

C16_Witness ==
    /\ trace.kind = "me"
    /\ trace.bearer \in Range(tokens)
    /\ trace.bearer.exp <= now
    /\ trace.bearer.jti \in token_blacklist[trace.worker]
    /\ result.status = 401
    /\ result.code = "TOKEN_EXPIRED"
    /\ \E b \in Range(tokens) : now < b.exp /\ b.type = "refresh"

----------------------------------------------------------------------------
(* Properties of the gate's authentication failures *)

AuthenticationFailures == {"expired", "revoked", "invalid", "missing"}

\* C17: when permission_required / role_required rejects a request at the
\* authentication check, the 401 results for an expired, a revoked, an
\* invalid and a missing token differ from one another.
C17_GateRejectionsCarryReason ==
    \A w \in Workers : \A b1, b2 \in Bearers :
        (/\ verify_jwt_in_request(w, b1, FALSE) \in AuthenticationFailures
         /\ verify_jwt_in_request(w, b2, FALSE) \in AuthenticationFailures
         /\ verify_jwt_in_request(w, b1, FALSE) # verify_jwt_in_request(w, b2, FALSE))
           => /\ \A perms \in GatePermissionInputs :
                    permission_required(w, b1, perms, FALSE)
                    # permission_required(w, b2, perms, FALSE)
              /\ \A role_names \in GateRoleInputs :
                    role_required(w, b1, role_names, FALSE)
                    # role_required(w, b2, role_names, FALSE)

----------------------------------------------------------------------------
(* Properties of the per-worker revocation sets *)

\* C18: each worker holds its own revocation set.  A token revoked by a
\* logout handled on worker A is rejected as revoked on A and still
\* validates on a worker B whose set lacks the jti, and a step changes the
\* set of the worker that handled a logout only: nothing carries a jti from
\* one worker's set to another's.
C18_RevocationStaysOnItsWorker ==
    /\ [](\A A, B \in Workers : \A b \in Range(tokens) :
            (/\ b.type = "access"
             /\ now < b.exp
             /\ b.jti \in token_blacklist[A]
             /\ b.jti \notin token_blacklist[B])
               => /\ verify_jwt_in_request(A, b, FALSE) = "revoked"
                  /\ verify_jwt_in_request(B, b, FALSE) = "valid")
    /\ [][\A B \in Workers :
             token_blacklist'[B] # token_blacklist[B]
                => /\ result'.op = "logout"
                   /\ result'.status = 200
                   /\ trace'.worker = B
                   /\ token_blacklist'[B] = token_blacklist[B] \cup {trace'.bearer.jti}]_vars

\* Worker B has just served GET /me for an unexpired token that worker A
\* holds as revoked
C18_Witness ==
    \E A, B \in Workers :
        /\ A # B
        /\ trace.kind = "me"
        /\ trace.worker = B
        /\ result.status = 200
        /\ now < trace.bearer.exp
        /\ trace.bearer.jti \in token_blacklist[A]
        /\ trace.bearer.jti \notin token_blacklist[B]
        /\ verify_jwt_in_request(A, trace.bearer, FALSE) = "revoked"

----------------------------------------------------------------------------
(* Properties of the v1 login flow *)

\* C19: POST /api/v1/auth/login gives the same outcome for an email that
\* matches no user and for a wrong password: in both cases the client
\* receives the 401 INVALID_CREDENTIALS response "Invalid email or password".
C19_LoginDoesNotRevealEmail ==
    (/\ trace.kind = "login_v1"
     /\ \/ get_by_email(trace.email) = None
        \/ ~check_password(get_by_email(trace.email), trace.password))
       => /\ result.status = 401
          /\ result.code = "INVALID_CREDENTIALS"
          /\ result.message = "Invalid email or password"

----------------------------------------------------------------------------
(* Properties of the user service *)

\* C21: create_user with the username of an existing non-deleted user raises
\* UserAlreadyExistsError with field 'username'; with a username no
\* non-deleted user has and the email of an existing non-deleted user it
\* raises it with field 'email'; when both collide the field is 'username';
\* in every rejected case no user row is added or changed.
C21_DuplicateUserRejected ==
    [][\A un \in {UsernameOf(1), UsernameOf(2)} : \A em \in {EmailOf(1), EmailOf(2)} :
          (trace'.kind = "create_user" /\ trace'.username = un /\ trace'.email = em)
             => LET name_taken == \E u \in UserIds :
                       users[u].exists /\ ~users[u].is_deleted /\ users[u].username = un
                    email_taken == \E u \in UserIds :
                       users[u].exists /\ ~users[u].is_deleted /\ users[u].email = em
                IN /\ name_taken =>
                      /\ result'.outcome = "UserAlreadyExistsError"
                      /\ result'.field = "username"
                   /\ (~name_taken /\ email_taken) =>
                      /\ result'.outcome = "UserAlreadyExistsError"
                      /\ result'.field = "email"
                   /\ result'.outcome # "ok" => users' = users]_vars

\* A create_user whose username and email both belong to live users has
\* just been rejected
C21_Witness ==
    /\ trace.kind = "create_user"
    /\ result.outcome = "UserAlreadyExistsError"
    /\ result.field = "username"
    /\ \E u \in UserIds :
          users[u].exists /\ ~users[u].is_deleted /\ users[u].username = trace.username
    /\ \E u \in UserIds :
          users[u].exists /\ ~users[u].is_deleted /\ users[u].email = trace.email
    /\ \E u \in UserIds : u # 1 /\ users[u].exists

\* C22: after soft_delete(id) the user is absent from get_by_id,
\* get_by_email, get_all and authenticate by default and present with
\* include_deleted = true; restore(id) makes it visible again with all other
\* fields unchanged; soft_delete and update_user on an id with no
\* non-deleted user raise UserNotFoundError and change nothing.
C22_SoftDeleteAndRestore ==
    [][\A id \in UserIds \cup {UnknownUserId} :
          LET live == id \in UserIds /\ users[id].exists /\ ~users[id].is_deleted
              row == id \in UserIds /\ users[id].exists
          IN /\ (trace'.kind = "soft_delete" /\ trace'.user_id = id /\ live)
                  => /\ result'.outcome = "ok"
                     /\ users' = [users EXCEPT ![id].is_deleted = TRUE]
                     /\ get_by_id(id, FALSE)' = None
                     /\ get_by_id(id, TRUE)' = id
                     /\ get_by_email(users[id].email)' = None
                     /\ get_by_email_opt(users[id].email, TRUE)' = id
                     /\ id \notin get_all(FALSE)'
                     /\ id \in get_all(TRUE)'
                     /\ authenticate(users[id].email, users[id].password)'.outcome
                           = "UserNotFoundError"
             /\ (trace'.kind = "restore" /\ trace'.user_id = id /\ row)
                  => /\ result'.outcome = "ok"
                     /\ users' = [users EXCEPT ![id].is_deleted = FALSE]
                     /\ get_by_id(id, FALSE)' = id
                     /\ get_by_email(users[id].email)' = id
                     /\ id \in get_all(FALSE)'
                     /\ authenticate(users[id].email, users[id].password)'.outcome = "ok"
             /\ (trace'.kind \in {"soft_delete", "update_user"} /\ trace'.user_id = id /\ ~live)
                  => /\ result'.outcome = "UserNotFoundError"
                     /\ users' = users]_vars

\* A deactivated user that was soft-deleted has just been restored
C22_Witness ==
    /\ trace.kind = "restore"
    /\ result.outcome = "ok"
    /\ trace.user_id \in UserIds
    /\ trace.user_id # 1
    /\ ~users[trace.user_id].is_active
    /\ ~users[trace.user_id].is_deleted
    /\ users[1].is_deleted

\* C30: no two user rows, soft-deleted or not, share a username or an
\* email.  create_user with a username or email that no live user has but a
\* soft-deleted user has passes the duplicate check, is rejected at commit
\* with an integrity error (not UserAlreadyExistsError) and leaves the store
\* unchanged; a restore of a soft-deleted user succeeds.
C30_UsernamesAndEmailsStayUnique ==
    /\ [](\A u, v \in UserIds :
            (u # v /\ users[u].exists /\ users[v].exists)
               => /\ users[u].username # users[v].username
                  /\ users[u].email # users[v].email)
    /\ [][/\ \A un \in {UsernameOf(1), UsernameOf(2)} : \A em \in {EmailOf(1), EmailOf(2)} :
               (/\ trace'.kind = "create_user" /\ trace'.username = un /\ trace'.email = em
                /\ \A u \in UserIds :
                      (users[u].exists /\ (users[u].username = un \/ users[u].email = em))
                         => users[u].is_deleted
                /\ \E u \in UserIds :
                      users[u].exists /\ (users[u].username = un \/ users[u].email = em))
                  => /\ result'.outcome = "IntegrityError"
                     /\ store' = store
          /\ \A id \in UserIds :
               (trace'.kind = "restore" /\ trace'.user_id = id /\ users[id].exists)
                  => /\ result'.outcome = "ok"
                     /\ ~users'[id].is_deleted]_vars

\* create_user with the email of a soft-deleted user has just failed at
\* commit
C30_Witness ==
    /\ trace.kind = "create_user"
    /\ result.outcome = "IntegrityError"
    /\ \E u \in UserIds :
          /\ users[u].exists /\ users[u].is_deleted
          /\ users[u].email = trace.email
          /\ users[u].username # trace.username

----------------------------------------------------------------------------
(* Properties of lookups by name *)

Misses(permission_names) == None \in Range(LookupPermissions(permission_names))

NotFound == {"RoleNotFoundError", "PermissionNotFoundError"}

\* C23: an RBAC operation that looks a role or a permission up by name and
\* misses raises a not-found condition and applies no change: the permission
\* names and the parent role name given to create_role and to the role
\* update are never silently ignored.
C23_UnknownNamesRaiseNotFound ==
    [][/\ \A i \in CreateRoleInputs :
            (/\ create_role(i[1], i[2], i[3], FALSE)
             /\ RoleRowNamed(i[1]) = None
             /\ \/ Misses(i[2])
                \/ i[3] \notin {Unset, ""} /\ get_role_by_name(i[3]) = None)
               => result'.outcome \in NotFound /\ roles' = roles
       /\ \A i \in UpdateRoleInputs :
            (/\ update_role(i[1], i[2], i[3])
             /\ get_role_by_name(i[1]) # None
             /\ \/ i[2].given /\ Misses(i[2].value)
                \/ i[3] \notin {Unset, ""} /\ get_role_by_name(i[3]) = None)
               => result'.outcome \in NotFound /\ roles' = roles]_vars

----------------------------------------------------------------------------
(* Properties of the role hierarchy *)

\* C24: in every state reachable through create_role, the role update,
\* delete_role and seeding the parent_role relation is acyclic: no role is
\* its own parent and no role is reachable from itself along parent_role.
C24_ParentRelationAcyclic ==
    \A r \in 1..Len(roles) : r \notin ParentChain(r, Len(roles))

\* C26: get_all_permissions and has_permission terminate for every user and
\* every role in every state reachable through create_role and the role
\* update: the walk up parent_role reaches a role with no parent.
C26_PermissionWalkTerminates ==
    /\ \A r \in 1..Len(roles) : RoleGetAllPermissions(r).returns
    /\ \A u \in UserIds :
          /\ get_all_permissions(u).returns
          /\ has_permission(u, Name(w_users, w_read)).returns

----------------------------------------------------------------------------
(* Properties of deleted roles *)

DeletableNames == {"editor", "viewer", "user"}

\* C27: delete_role(R) on a non-system role changes only R's is_deleted
\* flag: the user-role edges, the role's permissions and every parent link
\* stay, so has_role, get_all_permissions and has_permission give every
\* user the same result after the delete as before it.
C27_DeleteRoleChangesOnlyTheFlag ==
    [][\A n \in DeletableNames :
          (/\ delete_role(n)
           /\ get_role_by_name(n) # None
           /\ ~roles[get_role_by_name(n)].is_system_role)
             => /\ result'.outcome = "ok"
                /\ roles' = [roles EXCEPT ![get_role_by_name(n)].is_deleted = TRUE]
                /\ user_roles' = user_roles
                /\ user_permissions' = user_permissions
                /\ \A u \in UserIds :
                      /\ \A r \in CheckedRoleNames : has_role(u, r)' = has_role(u, r)
                      /\ get_all_permissions(u)' = get_all_permissions(u)
                      /\ \A p \in {Name(w_users, w_read), Name(w_users, w_update),
                                   Name(w_roles, w_read)} :
                            has_permission(u, p)' = has_permission(u, p)]_vars

\* A role that a user holds and another role inherits from has just been
\* soft-deleted, and the user still has its permissions
C27_Witness ==
    /\ result.op = "delete_role"
    /\ result.outcome = "ok"
    /\ \E u \in UserIds : \E r \in Range(user_roles[u]) :
          /\ roles[r].is_deleted
          /\ roles[r].permissions # << >>
          /\ get_all_permissions(u).returns
          /\ PermissionNames(roles[r].permissions) \subseteq get_all_permissions(u).value
          /\ has_role(u, roles[r].name)
          /\ \E c \in 1..Len(roles) : c # r /\ roles[c].parent_role_id = r

\* C28: once a role named N is soft-deleted it stays so: lookups of N by
\* name miss, create_role with name N raises RoleAssignmentError (at most
\* one role row per name exists, deleted or not), assign_role_to_user and
\* revoke_role_from_user with N raise RoleNotFoundError, and no operation
\* removes N from a user who holds it.
C28_DeletedRoleNameIsStuck ==
    /\ [](\A r, q \in 1..Len(roles) :
            /\ r # q => roles[r].name # roles[q].name
            /\ roles[r].is_deleted => get_role_by_name(roles[r].name) = None)
    /\ [][\A r \in 1..Len(roles) :
             roles[r].is_deleted =>
                /\ roles'[r].is_deleted
                /\ \A u \in UserIds :
                      r \in Range(user_roles[u]) => r \in Range(user_roles'[u])
                /\ \A i \in CreateRoleInputs :
                      (i[1] = roles[r].name /\ create_role(i[1], i[2], i[3], FALSE))
                         => result'.outcome = "RoleAssignmentError" /\ roles' = roles
                /\ \A u \in HolderIds :
                      /\ assign_role_to_user(u, roles[r].name)
                            => /\ result'.outcome = "RoleNotFoundError"
                               /\ user_roles' = user_roles
                      /\ revoke_role_from_user(u, roles[r].name)
                            => /\ result'.outcome = "RoleNotFoundError"
                               /\ user_roles' = user_roles]_vars

\* The revoke of a soft-deleted role from a user who holds it has just been
\* refused
C28_Witness ==
    /\ result.op = "revoke_role_from_user"
    /\ result.outcome = "RoleNotFoundError"
    /\ \E u \in HolderIds : \E r \in Range(user_roles[u]) :
          roles[r].is_deleted /\ roles[r].name = "viewer"

----------------------------------------------------------------------------
(* Properties of concurrent grants *)

\* C25: two simultaneous assign_role_to_user calls for the same (user,
\* role) pair, or two simultaneous grant_direct_permission calls for the
\* same (user, permission) pair, never produce two edges for the pair, and
\* the request that does not create the edge is rejected with
\* RoleAssignmentError / DirectPermissionError and fails in no other way.
C25_ConcurrentDuplicateIsBusinessError ==
    /\ ~ViolatesPrimaryKey(user_roles[1])
    /\ ~ViolatesPrimaryKey(user_permissions[1])
    /\ \A w \in Workers :
          LET s == trace.sessions[w]
          IN (s.pc = "done" /\ s.target # None /\ s.outcome # "ok")
                => s.outcome = IF s.op = "assign_role_to_user"
                               THEN "RoleAssignmentError"
                               ELSE "DirectPermissionError"

----------------------------------------------------------------------------
(* Properties of refresh tokens *)

\* C29: no sequence of login, logout, refresh and me requests puts the jti
\* of a refresh token into a revocation set: logout accepts access tokens
\* only and revokes the jti presented, so every unexpired refresh token
\* still validates at refresh, also after its user has logged out, and a
\* refresh with it mints a new access token that validates.
C29_RefreshTokensAreNeverRevoked ==
    /\ [](\A w \in Workers : \A t \in Range(tokens) :
            t.type = "refresh" =>
               /\ t.jti \notin token_blacklist[w]
               /\ now < t.exp => verify_jwt_in_request(w, t, TRUE) = "valid")
    /\ [][\A w \in Workers : \A t \in Range(tokens) :
             (/\ trace'.kind = "refresh" /\ trace'.worker = w /\ trace'.bearer = t
              /\ t.type = "refresh" /\ now < t.exp)
                => /\ result'.status = 200
                   /\ Len(tokens') = Len(tokens) + 2
                   /\ \E a \in Range(tokens') :
                         /\ a \notin Range(tokens)
                         /\ a.type = "access"
                         /\ a.sub = t.sub
                         /\ verify_jwt_in_request(w, a, FALSE)' = "valid"]_vars

\* A refresh has just succeeded on the worker that holds the access token
\* of the same pair as revoked
C29_Witness ==
    /\ trace.kind = "refresh"
    /\ result.status = 200
    /\ trace.bearer.type = "refresh"
    /\ \E a \in Range(tokens) :
          /\ a.type = "access"
          /\ a.jti = trace.bearer.jti - 1
          /\ a.sub = trace.bearer.sub
          /\ a.jti \in token_blacklist[trace.worker]

====
